---------------------------- MODULE Spec2Model ----------------------------
(***************************************************************************)
(* Model of the StandAlone SWD programmer firmware.                        *)
(*                                                                         *)
(*   - Intel HEX line parser      (Src/hex_parser.c)                       *)
(*   - HEX stream assembler       (Src/hex_parser.c, HEX_ProcessFile)      *)
(*   - SWD request encoding, packet transfer, connect  (swd_dap.c)         *)
(*                                                                         *)
(* Conventions.  Characters are their ASCII codes.  A C string is the      *)
(* sequence of its characters; reading at or past its end yields NUL.      *)
(* A uint32_t is a pair <<hi, lo>> of 16-bit halves (the tools' integers   *)
(* are narrower than 2^32); a uint8_t/uint16_t is a natural number kept    *)
(* within its width with %.  C indexes are 0-based and kept that way.      *)
(***************************************************************************)
EXTENDS Integers, Sequences, FiniteSets, TLC

VARIABLES
    \* ---- line-parser harness (calls of HEX_ParseLine on one line)
    pl_line,        \* the line handed to HEX_ParseLine
    pl_called,      \* whether HEX_ParseLine has been called on it
    pl_out,         \* the call's outcome: ret, record, the static afterwards
    \* ---- HEX stream assembler (HEX_ProcessFile and the file it reads)
    stream,         \* the bytes of the opened file
    fil,            \* FIL: fsize, fptr, current_sector, flag
    line_buffer,    \* the memory at line_buffer[0 .. bytes_read-1]
    bytes_read,     \* bytes_read of the last SD_ReadSector
    idx,            \* loop index i of the per-sector loop
    line_len,       \* line_len
    sector,         \* Program_Sector_t: base_address, data, size
    current_extended_address,   \* the file-scope static
    hexPc,          \* position inside HEX_ProcessFile
    hexRet,         \* return value of the pass, once hexPc = "done"
    hexExit,        \* which return statement ended the pass, and how
    sinkLog,        \* program_callback calls of the current pass, in order
    recLog,         \* records parsed in the current pass, in order
    passNo,         \* number of HEX_ProcessFile passes started
    overrun,        \* a write at an index >= HEX_LINE_MAX_LEN has happened
    \* ---- SWD
    swdTgt,         \* what the target puts on the wire: ack, word, parity
    swdPc,          \* "idle" before the host's call, "called" after it
    swdOp,          \* the operation called: name, addr, data
    swdOut,         \* its outcome
    \* ---- programming session (Program_Target)
    progIn,         \* whether the file is on the card, what the target puts
                    \* on the wire, what the uninitialised idcode holds
    progPc,         \* "idle" before the call, then where the session is
    progOut,        \* what the session has done so far
    \* ---- command channel (the main loop and the UART)
    uartIn,         \* the characters of the line and how many have been taken
    uartPc,         \* where the main loop is
    uartRx,         \* locals and result of the running UART_ReceiveCommand
    uartOut,        \* what the rounds of the main loop have done, in order
    \* ---- status LEDs (led_control.c and the main loop's calls of it)
    led,            \* the module's statics, the two pins, toggles counted
    mainSt          \* where the main loop is, milliseconds spent there

plVars  == <<pl_line, pl_called, pl_out>>
hexVars == <<stream, fil, line_buffer, bytes_read, idx, line_len, sector,
             current_extended_address, hexPc, hexRet, hexExit, sinkLog, recLog,
             passNo, overrun>>
swdVars == <<swdTgt, swdPc, swdOp, swdOut>>
progVars == <<progIn, progPc, progOut>>
uartVars == <<uartIn, uartPc, uartRx, uartOut>>
ledVars == <<led, mainSt>>
vars    == <<plVars, hexVars, swdVars, progVars, uartVars, ledVars>>

(***************************************************************************)
(* Fixed-width arithmetic                                                  *)
(***************************************************************************)
Pow2(n) == 2 ^ n

BitOf(v, i) == (v \div Pow2(i)) % 2

RECURSIVE BitOrN(_, _, _)
\* bitwise OR of two n-bit naturals
BitOrN(a, b, n) ==
    IF n = 0 THEN 0
    ELSE (IF a % 2 = 1 \/ b % 2 = 1 THEN 1 ELSE 0)
         + 2 * BitOrN(a \div 2, b \div 2, n - 1)

RECURSIVE BitAndN(_, _, _)
BitAndN(a, b, n) ==
    IF n = 0 THEN 0
    ELSE (IF a % 2 = 1 /\ b % 2 = 1 THEN 1 ELSE 0)
         + 2 * BitAndN(a \div 2, b \div 2, n - 1)

U32(hi, lo)  == <<hi, lo>>
U32Zero      == U32(0, 0)
U32Hi(w)     == w[1]
U32Lo(w)     == w[2]
U32Less(a, b) == \/ a[1] < b[1]
                 \/ (a[1] = b[1] /\ a[2] < b[2])
U32Or(a, b)  == U32(BitOrN(a[1], b[1], 16), BitOrN(a[2], b[2], 16))
\* a + n modulo 2^32, for 0 <= n < 2^16
U32AddSmall(a, n) ==
    LET lo == a[2] + n
    IN  U32((a[1] + lo \div 65536) % 65536, lo % 65536)
\* a - b modulo 2^32
U32Sub(a, b) ==
    LET borrow == IF a[2] < b[2] THEN 1 ELSE 0
    IN  U32((a[1] - b[1] - borrow + 65536) % 65536,
            (a[2] - b[2] + 65536) % 65536)
\* (uint8_t)v and (uint16_t)v of an int in -1 .. 65535
ToU8(v)  == (v + 256) % 256
ToU16(v) == (v + 65536) % 65536

(***************************************************************************)
(* C strings: a string value is the sequence of its characters before the  *)
(* terminating NUL                                                         *)
(***************************************************************************)
RECURSIVE NulIndex(_, _)
\* index of the first NUL in the buffer buf at or after k, Len(buf) if none
NulIndex(buf, k) ==
    IF k >= Len(buf) \/ buf[k + 1] = 0 THEN k ELSE NulIndex(buf, k + 1)

\* the string that starts at the beginning of the buffer buf
CString(buf) == SubSeq(buf, 1, NulIndex(buf, 0))

strlen(s) == Len(s)

\* s[k] of the string s: its k-th character, the terminating NUL behind them
CharAt(s, k) == IF k < strlen(s) THEN s[k + 1] ELSE 0

(***************************************************************************)
(* hex_parser.c : character and field decoding                             *)
(***************************************************************************)
HEX_LINE_MAX_LEN == 256
HEX_START_CODE   == 58
SECTOR_SIZE      == 512

HEX_RECORD_DATA              == 0
HEX_RECORD_EOF               == 1
HEX_RECORD_EXT_LINEAR_ADDR   == 4
HEX_RECORD_START_LINEAR_ADDR == 5

hex_char_to_int(c) ==
    IF c >= 48 /\ c <= 57 THEN c - 48
    ELSE IF c >= 65 /\ c <= 70 THEN c - 65 + 10
    ELSE IF c >= 97 /\ c <= 102 THEN c - 97 + 10
    ELSE -1

hex_string_to_byte(str, p) ==
    LET high == hex_char_to_int(CharAt(str, p))
        low  == hex_char_to_int(CharAt(str, p + 1))
    IN  IF high < 0 \/ low < 0 THEN -1 ELSE high * 16 + low

hex_string_to_word(str, p) ==
    LET high_byte == hex_string_to_byte(str, p)
        low_byte  == hex_string_to_byte(str, p + 2)
    IN  IF high_byte < 0 \/ low_byte < 0 THEN -1
        ELSE high_byte * 256 + low_byte

RECURSIVE ChecksumLoop(_, _, _, _)
\* the while loop of HEX_VerifyChecksum: <<ok, ptr, sum>> at loop exit
ChecksumLoop(line, len, ptr, sum) ==
    IF ptr < len - 2
    THEN LET byte_val == hex_string_to_byte(line, ptr)
         IN  IF byte_val < 0 THEN <<FALSE, ptr, sum>>
             ELSE ChecksumLoop(line, len, ptr + 2, (sum + ToU8(byte_val)) % 256)
    ELSE <<TRUE, ptr, sum>>

\* the end of HEX_VerifyChecksum, lp being the loop's outcome: the checksum
\* byte is read at ptr, cast to uint8_t and added
VerifyAfterLoop(line, lp) ==
    IF ~lp[1] THEN -1
    ELSE IF (lp[3] + ToU8(hex_string_to_byte(line, lp[2]))) % 256 = 0 THEN 0
    ELSE -1

HEX_VerifyChecksum(line) ==
    IF CharAt(line, 0) # HEX_START_CODE THEN -1
    ELSE IF strlen(line) < 11 THEN -1
    ELSE VerifyAfterLoop(line, ChecksumLoop(line, strlen(line), 1, 0))

RECURSIVE ParseData(_, _, _, _)
\* the data loop of HEX_ParseLine: <<ok, data>>
ParseData(line, data_len, i, acc) ==
    IF i < data_len
    THEN LET byte_val == hex_string_to_byte(line, 9 + 2 * i)
         IN  IF byte_val < 0 THEN <<FALSE, acc>>
             ELSE ParseData(line, data_len, i + 1, Append(acc, ToU8(byte_val)))
    ELSE <<TRUE, acc>>

NoRecord == [record_type |-> 0, address |-> 0, data_len |-> 0,
             data |-> <<>>, extended_address |-> U32Zero]

\* a variant of the end of HEX_ParseLine that assembles the two bytes of a
\* type 04 record in the opposite order (data[1] as the upper byte)
ParseAfterData_SwappedBytes(ext, data_len, address, record_type, pd) ==
    IF ~pd[1]
    THEN [ret |-> -1, record |-> NoRecord, ext |-> ext]
    ELSE [ret |-> 0,
          record |-> [record_type |-> record_type, address |-> address,
                      data_len |-> data_len, data |-> pd[2],
                      extended_address |-> ext],
          ext |-> IF record_type = HEX_RECORD_EXT_LINEAR_ADDR /\ data_len = 2
                  THEN U32(pd[2][2] * 256 + pd[2][1], 0)
                  ELSE ext]

\* the end of HEX_ParseLine, pd being the data loop's outcome: the record
\* takes the static's value, then a type 04 record of two bytes updates it
ParseAfterData(ext, data_len, address, record_type, pd) ==
    IF ~pd[1]
    THEN [ret |-> -1, record |-> NoRecord, ext |-> ext]
    ELSE [ret |-> 0,
          record |-> [record_type |-> record_type, address |-> address,
                      data_len |-> data_len, data |-> pd[2],
                      extended_address |-> ext],
          ext |-> IF record_type = HEX_RECORD_EXT_LINEAR_ADDR /\ data_len = 2
                  THEN U32(pd[2][1] * 256 + pd[2][2], 0)
                  ELSE ext]

\* HEX_ParseLine after the checksum check: byte count, address, type, data
ParseFields(line, ext, data_len) ==
    ParseAfterData(ext, data_len,
                   ToU16(hex_string_to_word(line, 3)),
                   ToU8(hex_string_to_byte(line, 7)),
                   ParseData(line, data_len, 0, <<>>))

\* HEX_ParseLine(line, &record) with the static current_extended_address = ext:
\* ret, the record written, and the static afterwards
HEX_ParseLine(line, ext) ==
    IF CharAt(line, 0) # HEX_START_CODE
    THEN [ret |-> -1, record |-> NoRecord, ext |-> ext]
    ELSE IF HEX_VerifyChecksum(line) # 0
    THEN [ret |-> -1, record |-> NoRecord, ext |-> ext]
    ELSE ParseFields(line, ext, ToU8(hex_string_to_byte(line, 1)))

(***************************************************************************)
(* Input lines for the line-parser harness: records encoded from field     *)
(* values, then altered one character at a time.                           *)
(***************************************************************************)
MaxCount == 2      \* largest byte_count field of a generated line
MaxData  == 2      \* largest number of data bytes actually present

HexDigit(n) == IF n < 10 THEN 48 + n ELSE 55 + n
Byte2(b)    == <<HexDigit(b \div 16), HexDigit(b % 16)>>

RECURSIVE SumSeq(_)
SumSeq(s) == IF s = <<>> THEN 0 ELSE s[1] + SumSeq(Tail(s))

RECURSIVE Bytes2(_)
Bytes2(s) == IF s = <<>> THEN <<>> ELSE Byte2(s[1]) \o Bytes2(Tail(s))

\* ":" LL AAAA TT DD.. CC, the checksum being the two's complement of the
\* byte sum, plus delta
EncodeLine(count, addr, type, data, delta) ==
    LET body == <<count, addr \div 256, addr % 256, type>> \o data
        ck   == (512 - (SumSeq(body) % 256) + delta) % 256
    IN  <<HEX_START_CODE>> \o Bytes2(body) \o Byte2(ck)

RECURSIVE SeqsUpTo(_, _)
SeqsUpTo(S, n) ==
    IF n = 0 THEN {<<>>}
    ELSE LET shorter == SeqsUpTo(S, n - 1)
         IN  shorter \cup {Append(s, x) : s \in {t \in shorter : Len(t) = n - 1}, x \in S}

GenDataBytes == {0, 8, 255}
GenTypes     == 0 .. 6
GenAddrs     == {0, 4660}

BaseLines(maxCount, maxData) ==
    {EncodeLine(c, a, t, d, dl) :
        c \in 0 .. maxCount, a \in GenAddrs, t \in GenTypes,
        d \in SeqsUpTo(GenDataBytes, maxData), dl \in {0, 1, 255}}

\* one character replaced by 'G' (position p), the last character dropped,
\* or one digit appended
Altered(l) ==
    {[l EXCEPT ![p] = 71] : p \in 1 .. Len(l)}
    \cup {SubSeq(l, 1, Len(l) - 1), Append(l, 48)}

GenLines(maxCount, maxData) ==
    BaseLines(maxCount, maxData)
    \cup UNION {Altered(l) : l \in BaseLines(maxCount, maxData)}

(***************************************************************************)
(* Line-parser harness                                                     *)
(***************************************************************************)
NoOutcome == [ret |-> 0, record |-> NoRecord, ext |-> U32Zero]

(***************************************************************************)
(* hex_parser.c : HEX_ProcessRecord                                        *)
(***************************************************************************)
FilledSector(v) == [k \in 1 .. SECTOR_SIZE |-> v]

\* memset(&sector, 0, sizeof(Program_Sector_t))
ZeroSector == [base_address |-> U32Zero, data |-> FilledSector(0), size |-> 0]

\* memcpy(&sector->data[offset], record->data, record->data_len)
CopyInto(data, offset, src, n) ==
    [k \in 1 .. SECTOR_SIZE |->
        IF k - 1 >= offset /\ k - 1 < offset + n THEN src[k - offset] ELSE data[k]]

\* a full address that leaves the extended address out
FullAddress_NoExt(record) == U32(0, record.address)

\* full_address = record->extended_address | record->address
FullAddress(record) == U32Or(record.extended_address, U32(0, record.address))

\* a sector initialisation that sets the base address and leaves the data
\* as it is (the memset to 0xFF left out)
SectorStart_NoFill(sec, full_address) ==
    IF sec.size = 0
    THEN [sec EXCEPT !.base_address = full_address]
    ELSE sec

\* sector initialisation when empty: base_address and the 0xFF fill
SectorStart(sec, full_address) ==
    IF sec.size = 0
    THEN [sec EXCEPT !.base_address = full_address, !.data = FilledSector(255)]
    ELSE sec

\* offset = full_address - sector->base_address, as a number
SectorOffset(full_address, base_address) ==
    U32Sub(full_address, base_address)[1] * 65536
    + U32Sub(full_address, base_address)[2]

\* the copy into the sector at offset, and the size update
StoreData(record, s1, offset) ==
    IF offset + record.data_len > SECTOR_SIZE
    THEN [ret |-> -1, sector |-> s1]
    ELSE [ret |-> 0,
          sector |->
            [s1 EXCEPT
               !.data = CopyInto(@, offset, record.data, record.data_len),
               !.size = IF offset + record.data_len > @
                        THEN offset + record.data_len ELSE @]]

\* HEX_ProcessRecord for a data record once the sector is started
PlaceData(record, s1, full_address) ==
    IF \/ U32Less(full_address, s1.base_address)
       \/ ~U32Less(full_address, U32AddSmall(s1.base_address, SECTOR_SIZE))
    THEN [ret |-> 1, sector |-> s1]
    ELSE StoreData(record, s1, SectorOffset(full_address, s1.base_address))

\* HEX_ProcessRecord(record, sector): ret and the sector afterwards
HEX_ProcessRecord(record, sec) ==
    IF record.record_type # HEX_RECORD_DATA
    THEN [ret |-> 0, sector |-> sec]
    ELSE PlaceData(record, SectorStart(sec, FullAddress(record)),
                   FullAddress(record))

(***************************************************************************)
(* sd_card.c : the file object and SD_ReadSector                           *)
(***************************************************************************)
\* first sector of the file's data: data_start_sector +
\* (start_cluster - 2) * sectors_per_cluster, for a volume whose data area
\* starts at sector 8, one sector per cluster, file in cluster 2
FileFirstSector == 8 + ((2 - 2) * 1)

\* SD_OpenFile once SD_FindFile has found the file
SD_OpenFile(bytes) ==
    [fsize |-> Len(bytes), fptr |-> 0,
     current_sector |-> FileFirstSector, flag |-> 1]

\* the 512 bytes SD_ReadRawSector delivers for a sector of the file; the
\* part of the last sector behind the file's end reads as zeros
RawSector(bytes, cs) ==
    LET first == (cs - FileFirstSector) * SECTOR_SIZE
    IN  [k \in 1 .. SECTOR_SIZE |->
            IF first + k <= Len(bytes) THEN bytes[first + k] ELSE 0]

\* an SD_ReadSector that delivers the sector and leaves the file pointer
\* where it was
SD_ReadSector_NoAdvance(f, bytes, sector_size, rawOk) ==
    IF f.flag = 0
    THEN [ret |-> -1, fil |-> f, wrote |-> FALSE, bytes_read |-> 0]
    ELSE IF f.fptr >= f.fsize
    THEN [ret |-> 0, fil |-> f, wrote |-> FALSE, bytes_read |-> 0]
    ELSE LET left    == f.fsize - f.fptr
             to_read == IF left > sector_size THEN sector_size ELSE left
         IN  IF ~rawOk
             THEN [ret |-> -1, fil |-> f, wrote |-> FALSE, bytes_read |-> 0]
             ELSE [ret |-> 0,
                   fil |-> [f EXCEPT !.current_sector = @ + 1],
                   wrote |-> TRUE, bytes_read |-> to_read]

\* SD_ReadSector(file, buffer, sector_size, &bytes_read); rawOk tells whether
\* SD_ReadRawSector succeeds.  wrote: whether the buffer was written.
SD_ReadSector(f, bytes, sector_size, rawOk) ==
    IF f.flag = 0
    THEN [ret |-> -1, fil |-> f, wrote |-> FALSE, bytes_read |-> 0]
    ELSE IF f.fptr >= f.fsize
    THEN [ret |-> 0, fil |-> f, wrote |-> FALSE, bytes_read |-> 0]
    ELSE LET left    == f.fsize - f.fptr
             to_read == IF left > sector_size THEN sector_size ELSE left
         IN  IF ~rawOk
             THEN [ret |-> -1, fil |-> f, wrote |-> FALSE, bytes_read |-> 0]
             ELSE [ret |-> 0,
                   fil |-> [f EXCEPT !.fptr = @ + to_read,
                                     !.current_sector = @ + 1],
                   wrote |-> TRUE, bytes_read |-> to_read]

\* SD_Rewind(file): the file pointer and the current sector are set to 0
SD_Rewind(f) == [f EXCEPT !.fptr = 0, !.current_sector = 0]

\* SD_CloseFile(file)
SD_CloseFile(f) == [f EXCEPT !.flag = 0]

\* what SD_ReadRawSector delivers for sector cs of the card: a sector of the
\* file, or for a sector in front of the data area what the card holds there
CardSector(bytes, cs) ==
    IF cs >= FileFirstSector THEN RawSector(bytes, cs) ELSE progIn.boot

(***************************************************************************)
(* hex_parser.c : HEX_ProcessFile, one step per sector read and per line   *)
(***************************************************************************)
RECURSIVE ScanLine(_, _, _, _)
\* the for loop of HEX_ProcessFile from index i up to the next line ending
\* that closes a non-empty line, or to the end of the bytes read.
\* at_line: stopped on such a line ending (buf[ll] = NUL written).
ScanLine(buf, i, ll, n) ==
    IF i >= n THEN [at_line |-> FALSE, i |-> i, line_len |-> ll, buf |-> buf]
    ELSE LET c == buf[i + 1]
         IN  IF c = 10 \/ c = 13
             THEN IF ll > 0
                  THEN [at_line |-> TRUE, i |-> i, line_len |-> ll,
                        buf |-> [buf EXCEPT ![ll + 1] = 0]]
                  ELSE ScanLine(buf, i + 1, ll, n)
             ELSE IF ll < HEX_LINE_MAX_LEN - 1
                  THEN ScanLine([buf EXCEPT ![ll + 1] = c], i + 1, ll + 1, n)
                  ELSE ScanLine(buf, i + 1, ll, n)

\* the line handed to HEX_ParseLine: (char*)line_buffer up to its NUL
LineOf(buf) == CString(buf)

\* a parsed record as the loop body sees it, with the absolute address
\* HEX_ProcessRecord computes for it; calls: the number of program_callback
\* calls made before the sector that takes the record's data is handed over
Logged(record, calls) ==
    [rec |-> record, abs |-> FullAddress(record), calls |-> calls]

\* a test at the end of file record that always calls the callback
EofFlush_Always(sec) == TRUE

\* the test that guards the callback at the end of file record
EofFlush(sec) == sec.size > 0

\* one program_callback call as the sink sees it
SinkCall(sec, ret) ==
    [addr |-> sec.base_address, size |-> sec.size,
     data |-> SubSeq(sec.data, 1, sec.size), ret |-> ret]

SinkRets == {0, -1}

(***************************************************************************)
(* Input streams: up to MaxRecords lines of a fixed menu, ended by LF or   *)
(* CR LF, the last line with or without its line ending.                   *)
(***************************************************************************)
MaxRecords == 3
MaxPasses  == 2

LineExt0800   == EncodeLine(2, 0, 4, <<8, 0>>, 0)
LineExtShort  == EncodeLine(1, 0, 4, <<9>>, 0)
LineData0100  == EncodeLine(1, 256, 0, <<170>>, 0)
LineData0080  == EncodeLine(2, 128, 0, <<187, 204>>, 0)
LineDataBad   == EncodeLine(1, 129, 0, <<238>>, 1)
LineType02    == EncodeLine(2, 0, 2, <<16, 0>>, 0)
LineEOF       == EncodeLine(0, 0, 1, <<>>, 0)

HexMenu == {LineExt0800, LineExtShort, LineData0100, LineData0080,
            LineDataBad, LineType02, LineEOF}

RECURSIVE JoinLines(_, _, _)
JoinLines(ls, eol, lastEol) ==
    IF ls = <<>> THEN <<>>
    ELSE IF Len(ls) = 1 THEN ls[1] \o (IF lastEol THEN eol ELSE <<>>)
    ELSE ls[1] \o eol \o JoinLines(Tail(ls), eol, lastEol)

HexStreams(maxRecords) ==
    {JoinLines(ls, eol, lastEol) :
        ls \in SeqsUpTo(HexMenu, maxRecords),
        eol \in {<<10>>, <<13, 10>>}, lastEol \in BOOLEAN}

(***************************************************************************)
(* Input streams for the assembly of program units: up to MaxUnitRecords   *)
(* lines of a second menu, ended by CR LF, the last line with or without   *)
(* its line ending.  LineData027F starts inside the 512 byte window of a   *)
(* sector based at 0x0080 and ends behind it; LineData0081 rewrites a byte *)
(* of LineData0080.                                                        *)
(***************************************************************************)
MaxUnitRecords == 3

LineData027F  == EncodeLine(2, 639, 0, <<17, 34>>, 0)
LineData0081  == EncodeLine(1, 129, 0, <<51>>, 0)
LineDeadBeef  == EncodeLine(4, 0, 0, <<222, 173, 190, 239>>, 0)

UnitMenu == {LineExt0800, LineData0080, LineData027F, LineData0081,
             LineDeadBeef, LineEOF}

\* the characters of
\*   :020000040800F2 CR LF :04000000DEADBEEF77 CR LF :00000001FF CR LF
\* (its second line sums to 0xB3, not to 0)
MinimalImage77 ==
    <<
      58, 48, 50, 48, 48, 48, 48, 48, 52, 48, 56, 48, 48, 70, 50, 13,
      10, 58, 48, 52, 48, 48, 48, 48, 48, 48, 68, 69, 65, 68, 66, 69,
      69, 70, 55, 55, 13, 10, 58, 48, 48, 48, 48, 48, 48, 48, 49, 70,
      70, 13, 10
    >>

UnitStreams(maxRecords) ==
    {JoinLines(ls, <<13, 10>>, lastEol) :
        ls \in SeqsUpTo(UnitMenu, maxRecords), lastEol \in BOOLEAN}
    \cup {MinimalImage77}

(***************************************************************************)
(* Input streams longer than one sector: blank lines, then lines that set  *)
(* the upper address to 0x0800 (17 bytes each with CR LF), then the data   *)
(* line at 0x0080 and the end of file record.  With 30 address lines and   *)
(* no blank line the data line starts at byte 510 of the file and ends in  *)
(* the second 512 byte read.                                               *)
(***************************************************************************)
MaxPadLines == 31
MaxBlank    == 8

RECURSIVE Repeat(_, _)
Repeat(s, n) == IF n = 0 THEN <<>> ELSE s \o Repeat(s, n - 1)

ChunkStream(blank, pad) ==
    Repeat(<<10>>, blank) \o Repeat(LineExt0800 \o <<13, 10>>, pad)
    \o LineData0080 \o <<13, 10>> \o LineEOF \o <<13, 10>>

ChunkStreams == {ChunkStream(b, p) : b \in 0 .. MaxBlank, p \in 1 .. MaxPadLines}

(***************************************************************************)
(* HEX stream assembler: actions                                           *)
(***************************************************************************)
\* return from HEX_ProcessFile
HexReturn(ret, exit) ==
    /\ hexPc' = "done"
    /\ hexRet' = ret
    /\ hexExit' = exit

\* Program_Target opens the file (SD_OpenFile) for a session
HexOpen ==
    /\ UNCHANGED <<plVars, swdVars, progVars, uartVars, ledVars>>
    /\ hexPc \in {"closed", "done"}
    /\ passNo < MaxPasses
    /\ fil' = SD_OpenFile(stream)
    /\ hexPc' = "idle"
    /\ UNCHANGED <<stream, line_buffer, bytes_read, idx, line_len, sector,
                   current_extended_address, hexRet, hexExit, sinkLog, recLog,
                   passNo, overrun>>

\* entry of HEX_ProcessFile: memset(&sector, 0), current_extended_address = 0
HexCall ==
    /\ UNCHANGED <<plVars, swdVars, progVars, uartVars, ledVars>>
    /\ hexPc = "idle"
    /\ sector' = ZeroSector
    /\ current_extended_address' = U32Zero
    /\ hexPc' = "read"
    /\ hexRet' = 0
    /\ hexExit' = "none"
    /\ sinkLog' = <<>>
    /\ recLog' = <<>>
    /\ passNo' = passNo + 1
    /\ UNCHANGED <<stream, fil, line_buffer, bytes_read, idx, line_len, overrun>>

\* SD_ReadSector(file, line_buffer, SECTOR_SIZE, &bytes_read) delivers bytes:
\* line_len = 0 and the for loop starts
HexReadData ==
    /\ UNCHANGED <<plVars, swdVars, progVars, uartVars, ledVars>>
    /\ hexPc = "read"
    /\ \E r \in {SD_ReadSector(fil, stream, SECTOR_SIZE, TRUE)} :
           /\ r.ret = 0 /\ r.bytes_read > 0
           /\ fil' = r.fil
           /\ line_buffer' = SubSeq(CardSector(stream, fil.current_sector),
                                    1, r.bytes_read)
           /\ overrun' = (overrun \/ SECTOR_SIZE > HEX_LINE_MAX_LEN)
           /\ bytes_read' = r.bytes_read
    /\ line_len' = 0
    /\ idx' = 0
    /\ hexPc' = "scan"
    /\ UNCHANGED <<stream, sector, current_extended_address, hexRet, hexExit,
                   sinkLog, recLog, passNo>>

\* SD_ReadSector fails (SD_ReadRawSector error): return -1
HexReadFail ==
    /\ UNCHANGED <<plVars, swdVars, progVars, uartVars, ledVars>>
    /\ hexPc = "read"
    /\ \E r \in {SD_ReadSector(fil, stream, SECTOR_SIZE, FALSE)} :
           /\ r.ret # 0
           /\ fil' = r.fil
    /\ HexReturn(-1, "read")
    /\ UNCHANGED <<stream, line_buffer, bytes_read, idx, line_len, sector,
                   current_extended_address, sinkLog, recLog, passNo, overrun>>

\* bytes_read == 0: break, flush the last sector if not empty, return
HexEndOfStream ==
    /\ UNCHANGED <<plVars, swdVars, progVars, uartVars, ledVars>>
    /\ hexPc = "read"
    /\ \E r \in {SD_ReadSector(fil, stream, SECTOR_SIZE, TRUE)} :
           /\ r.ret = 0 /\ r.bytes_read = 0
           /\ fil' = r.fil
           /\ bytes_read' = r.bytes_read
    /\ IF sector.size > 0
       THEN \E cb \in SinkRets :
              /\ sinkLog' = Append(sinkLog, SinkCall(sector, cb))
              /\ IF cb # 0 THEN HexReturn(-1, "end_sink_failed")
                 ELSE HexReturn(0, "end_flushed")
       ELSE /\ sinkLog' = sinkLog
            /\ HexReturn(0, "end_empty")
    /\ UNCHANGED <<stream, line_buffer, idx, line_len, sector,
                   current_extended_address, recLog, passNo, overrun>>

\* the for loop runs to i == bytes_read without closing another line
HexChunkEnd ==
    /\ UNCHANGED <<plVars, swdVars, progVars, uartVars, ledVars>>
    /\ hexPc = "scan"
    /\ \E sc \in {ScanLine(line_buffer, idx, line_len, bytes_read)} :
           /\ ~sc.at_line
           /\ line_buffer' = sc.buf
           /\ idx' = sc.i
           /\ line_len' = sc.line_len
    /\ hexPc' = "read"
    /\ UNCHANGED <<stream, fil, bytes_read, sector, current_extended_address,
                   hexRet, hexExit, sinkLog, recLog, passNo, overrun>>

\* the loop body after the first HEX_ProcessRecord returned r1: on 1 the
\* sector is flushed if not empty, zeroed, and the record processed again (r2)
AfterProcess(r1, r2) ==
    IF r1.ret = 1
    THEN [flush |-> r1.sector.size > 0, flushed |-> r1.sector,
          ok |-> r2.ret = 0, sector |-> r2.sector]
    ELSE [flush |-> FALSE, flushed |-> r1.sector,
          ok |-> r1.ret = 0, sector |-> r1.sector]

\* what the loop body does with a parsed record that is not EOF: whether it
\* flushes, the sector it flushes, whether it goes on, the sector afterwards
RecordStep(record, sec) ==
    AfterProcess(HEX_ProcessRecord(record, sec),
                 HEX_ProcessRecord(record, ZeroSector))

\* a line ending closes a non-empty line: parse it and act on the record
HexLine ==
    /\ UNCHANGED <<plVars, swdVars, progVars, uartVars, ledVars>>
    /\ hexPc = "scan"
    /\ \E sc \in {ScanLine(line_buffer, idx, line_len, bytes_read)} :
       \E pr \in {HEX_ParseLine(LineOf(sc.buf), current_extended_address)} :
       \E st \in {RecordStep(pr.record, sector)} :
           /\ sc.at_line
           /\ line_buffer' = sc.buf
           /\ current_extended_address' = pr.ext
           /\ IF pr.ret # 0
              THEN \* parse error
                   /\ HexReturn(-1, "parse")
                   /\ idx' = sc.i
                   /\ line_len' = sc.line_len
                   /\ UNCHANGED <<sector, sinkLog, recLog>>
              ELSE IF pr.record.record_type = HEX_RECORD_EOF
              THEN \* end of file record: flush and return
                   /\ recLog' = Append(recLog, Logged(pr.record, Len(sinkLog)))
                   /\ idx' = sc.i
                   /\ line_len' = sc.line_len
                   /\ UNCHANGED sector
                   /\ IF EofFlush(sector)
                      THEN \E cb \in SinkRets :
                             /\ sinkLog' = Append(sinkLog, SinkCall(sector, cb))
                             /\ IF cb # 0 THEN HexReturn(-1, "eof_sink_failed")
                                ELSE HexReturn(0, "eof_flushed")
                      ELSE /\ sinkLog' = sinkLog
                           /\ HexReturn(0, "eof_empty")
              ELSE \* any other record
                   /\ recLog' = Append(recLog,
                                   Logged(pr.record,
                                          Len(sinkLog)
                                          + (IF st.flush THEN 1 ELSE 0)))
                   /\ \E cb \in SinkRets :
                        /\ (~st.flush => cb = 0)
                        /\ sinkLog' = IF st.flush
                                      THEN Append(sinkLog, SinkCall(st.flushed, cb))
                                      ELSE sinkLog
                        /\ IF st.flush /\ cb # 0
                           THEN /\ HexReturn(-1, "flush_sink_failed")
                                /\ sector' = st.flushed
                                /\ idx' = sc.i
                                /\ line_len' = sc.line_len
                           ELSE IF ~st.ok
                           THEN /\ HexReturn(-1, "record")
                                /\ sector' = st.sector
                                /\ idx' = sc.i
                                /\ line_len' = sc.line_len
                           ELSE /\ sector' = st.sector
                                /\ idx' = sc.i + 1
                                /\ line_len' = 0
                                /\ UNCHANGED <<hexPc, hexRet, hexExit>>
    /\ UNCHANGED <<stream, fil, bytes_read, passNo, overrun>>

HexNext ==
    \/ HexOpen
    \/ HexCall
    \/ HexReadData
    \/ HexReadFail
    \/ HexEndOfStream
    \/ HexChunkEnd
    \/ HexLine

(***************************************************************************)
(* swd_dap.c : parity, wire events, packet transfer                        *)
(***************************************************************************)
SWD_ACK_OK    == 1
SWD_ACK_WAIT  == 2
SWD_ACK_FAULT == 4
SWD_ACK_ERROR == 7
DP_IDCODE     == 0
DP_RDBUFF     == 12

RECURSIVE ParityN(_, _)
\* parity ^= 1 for every set bit among the low n bits
ParityN(v, n) ==
    IF n = 0 THEN 0 ELSE ((v % 2) + ParityN(v \div 2, n - 1)) % 2

\* a parity over the lower 16 bits of value only
CalcParity_LowHalf(value) == ParityN(value[2], 16)

\* CalcParity(value): the loop over the 32 bits of value
CalcParity(value) == (ParityN(value[1], 16) + ParityN(value[2], 16)) % 2

\* wire events: SWD_SetDirOutput / SWD_SetDirInput, SWD_WriteBit(b),
\* SWD_ReadBit() sampling b
EvDirOut   == <<"dir", "out">>
EvDirIn    == <<"dir", "in">>
EvWrite(b) == <<"w", b>>
EvRead(b)  == <<"r", b>>

\* SWD_WriteBit for the low n bits of v, LSB first
WriteBits(v, n) == [k \in 1 .. n |-> EvWrite(BitOf(v, k - 1))]
SWD_WriteByte(data) == WriteBits(data, 8)

\* the 32 bits of a word in wire order (LSB first)
WordBits(w) == [k \in 1 .. 32 |->
                  IF k <= 16 THEN BitOf(w[2], k - 1) ELSE BitOf(w[1], k - 17)]

RECURSIVE Pack(_, _, _)
\* the number whose bit j is bits[k + j], for j < n
Pack(bits, k, n) == IF n = 0 THEN 0 ELSE bits[k] + 2 * Pack(bits, k + 1, n - 1)

\* value after the 32 rounds of value >>= 1; if (bit) value |= 0x80000000
\* starting from 0: the i-th sampled bit ends up as bit i of value
ShiftIn(bits) == U32(Pack(bits, 17, 16), Pack(bits, 1, 16))

\* a line reset that leaves the direction of SWDIO as it finds it
SWD_LineReset_DirAsFound ==
    [ret  |-> 0,
     wire |-> [k \in 1 .. 56 |-> EvWrite(1)] \o SWD_WriteByte(0)
              \o [k \in 1 .. 56 |-> EvWrite(1)] \o SWD_WriteByte(0)]

\* SWD_LineReset: 56 ones, 0x00, 56 ones, 0x00, SWDIO driven by the host
SWD_LineReset ==
    [ret  |-> 0,
     wire |-> <<EvDirOut>> \o [k \in 1 .. 56 |-> EvWrite(1)] \o SWD_WriteByte(0)
              \o [k \in 1 .. 56 |-> EvWrite(1)] \o SWD_WriteByte(0)]

\* a transfer that clocks the payload of a write whatever the ACK was
SWD_TransferPacket_PayloadAlways(request, data, tgt) ==
    LET head   == <<EvDirOut>> \o SWD_WriteByte(request)
                  \o <<EvDirIn, EvRead(1)>>
                  \o [k \in 1 .. 3 |-> EvRead(BitOf(tgt.ack, k - 1))]
        idle   == <<EvDirOut, EvWrite(0)>>
        bits   == WordBits(tgt.word)
        rd     == [k \in 1 .. 32 |-> EvRead(bits[k])]
                  \o <<EvRead(tgt.par), EvRead(1)>>
    IN  IF BitAndN(request, 4, 8) # 0
        THEN IF tgt.ack # SWD_ACK_OK
             THEN [ack |-> tgt.ack, data |-> data, wire |-> head \o idle]
             ELSE IF tgt.par # CalcParity(ShiftIn(bits))
             THEN [ack |-> SWD_ACK_ERROR, data |-> data,
                   wire |-> head \o rd \o idle]
             ELSE [ack |-> tgt.ack, data |-> ShiftIn(bits),
                   wire |-> head \o rd \o idle]
        ELSE [ack |-> tgt.ack, data |-> data,
              wire |-> head \o <<EvRead(1), EvDirOut>>
                       \o WriteBits(data[2], 16) \o WriteBits(data[1], 16)
                       \o <<EvWrite(CalcParity(data))>> \o idle]

\* SWD_TransferPacket(request, data) against a target that answers
\* tgt = [ack, word, par]: the ACK value it drives, and for a read the data
\* word and parity bit it drives.  Samples taken while nobody drives the
\* line read the pull-up.
SWD_TransferPacket(request, data, tgt) ==
    LET head   == <<EvDirOut>> \o SWD_WriteByte(request)
                  \o <<EvDirIn, EvRead(1)>>
                  \o [k \in 1 .. 3 |-> EvRead(BitOf(tgt.ack, k - 1))]
        ack    == tgt.ack
        idle   == <<EvDirOut, EvWrite(0)>>
    IN  IF ack = SWD_ACK_OK
        THEN IF BitAndN(request, 4, 8) # 0
             THEN \* read operation
                  LET bits   == WordBits(tgt.word)
                      value  == ShiftIn(bits)
                      parity == tgt.par
                      rd     == [k \in 1 .. 32 |-> EvRead(bits[k])]
                                \o <<EvRead(parity), EvRead(1)>>
                  IN  IF parity # CalcParity(value)
                      THEN [ack |-> SWD_ACK_ERROR, data |-> data,
                            wire |-> head \o rd \o idle]
                      ELSE [ack |-> ack, data |-> value,
                            wire |-> head \o rd \o idle]
             ELSE \* write operation
                  [ack |-> ack, data |-> data,
                   wire |-> head \o <<EvRead(1), EvDirOut>>
                            \o WriteBits(data[2], 16) \o WriteBits(data[1], 16)
                            \o <<EvWrite(CalcParity(data))>> \o idle]
        ELSE [ack |-> ack, data |-> data, wire |-> head \o idle]

(***************************************************************************)
(* swd_dap.c : DP / AP register access                                     *)
(***************************************************************************)
\* request |= (CalcParity(request) << 5)
WithParity(request) == BitOrN(request, CalcParity(U32(0, request)) * 32, 8)

\* a DP read request with RnW (bit 2) set and the address bits A[2], A[3]
\* in bits 3 and 4
ReadDP_Request_RnW(addr) ==
    WithParity(133 + 8 * BitOf(addr, 2) + 16 * BitOf(addr, 3))

\* the request byte each operation builds
ReadDP_Request(addr)  == WithParity(BitOrN(129, BitAndN(addr, 12, 8), 8))
WriteDP_Request(addr) ==
    WithParity(BitOrN(BitAndN(129, 251, 8), BitAndN(addr, 12, 8), 8))
ReadAP_Request(addr)  == WithParity(BitOrN(133, BitAndN(addr, 12, 8), 8))
WriteAP_Request(addr) ==
    WithParity(BitOrN(BitAndN(133, 251, 8), BitAndN(addr, 12, 8), 8))

\* outcome of an operation: ret, *data afterwards, the requests handed to
\* SWD_TransferPacket, the wire events, the number of target answers used
\* return (ack == SWD_ACK_OK) ? 0 : -1, t being the transfer's outcome
AckToRet(request, t, data) ==
    [ret |-> IF t.ack = SWD_ACK_OK THEN 0 ELSE -1, data |-> data,
     requests |-> <<request>>, wire |-> t.wire]

\* a read hands back what the transfer left in *data
ReadToRet(request, t) == AckToRet(request, t, t.data)

SWD_ReadDP(addr, data, tgts) ==
    ReadToRet(ReadDP_Request(addr),
              SWD_TransferPacket(ReadDP_Request(addr), data, tgts[1]))

SWD_WriteDP(addr, data, tgts) ==
    AckToRet(WriteDP_Request(addr),
             SWD_TransferPacket(WriteDP_Request(addr), data, tgts[1]), data)

\* SWD_ReadAP after its AP transfer t: on OK the RDBUFF read r decides
ReadAPAfter(request, t, r) ==
    IF t.ack = SWD_ACK_OK
    THEN [ret |-> r.ret, data |-> r.data,
          requests |-> <<request>> \o r.requests, wire |-> t.wire \o r.wire]
    ELSE [ret |-> -1, data |-> t.data, requests |-> <<request>>,
          wire |-> t.wire]

\* the RDBUFF read that follows the AP transfer t
ReadAPFollowUp(request, t, tgts) ==
    ReadAPAfter(request, t, SWD_ReadDP(DP_RDBUFF, t.data, Tail(tgts)))

SWD_ReadAP(addr, data, tgts) ==
    ReadAPFollowUp(ReadAP_Request(addr),
                   SWD_TransferPacket(ReadAP_Request(addr), data, tgts[1]),
                   tgts)

SWD_WriteAP(addr, data, tgts) ==
    AckToRet(WriteAP_Request(addr),
             SWD_TransferPacket(WriteAP_Request(addr), data, tgts[1]), data)

\* Target_Detect(&idcode)
Target_Detect(idcode, tgts) == SWD_ReadDP(DP_IDCODE, idcode, tgts)

\* Target_Connect after the line reset lr and the IDCODE read d
ConnectAfter(lr, d) ==
    IF lr.ret # 0
    THEN [ret |-> -1, data |-> U32Zero, requests |-> <<>>, wire |-> lr.wire]
    ELSE IF d.ret # 0
    THEN [d EXCEPT !.ret = -1, !.wire = lr.wire \o @]
    ELSE IF d.data = U32Zero \/ d.data = U32(65535, 65535)
    THEN [d EXCEPT !.ret = -1, !.wire = lr.wire \o @]
    ELSE [d EXCEPT !.ret = 0, !.wire = lr.wire \o @]

\* Target_Connect: line reset, IDCODE read into a local that starts at 0
Target_Connect(tgts) ==
    ConnectAfter(SWD_LineReset, Target_Detect(U32Zero, tgts))

(***************************************************************************)
(* swd_dap.c : MCU identification, memory writes, flash unlock             *)
(***************************************************************************)
MCU_TYPE_UNKNOWN   == 0
MCU_TYPE_CORTEX_M0 == 1
MCU_TYPE_CORTEX_M3 == 2
MCU_TYPE_CORTEX_M4 == 3

AP_CSW == 0
AP_TAR == 4
AP_DRW == 12

IDCODE_CORTEX_M0 == U32(2993, 5239)     \* 0x0BB11477
IDCODE_CORTEX_M3 == U32(19360, 1143)    \* 0x4BA00477
IDCODE_CORTEX_M4 == U32(19360, 5239)    \* 0x4BA01477

FLASH_BASE_M3 == U32(16386, 8192)       \* 0x40022000
FLASH_KEYR_M3 == U32AddSmall(FLASH_BASE_M3, 4)
\* the key values of the STM32F1 flash interface (the macros are used in
\* Flash_Unlock; their definitions are in a header that is not at hand)
FLASH_KEY1 == U32(17767, 291)           \* 0x45670123
FLASH_KEY2 == U32(52719, 35243)         \* 0xCDEF89AB
\* 0x23000002: 32-bit access, auto-increment
CSW_WORD_AUTOINC == U32(8960, 2)

\* Target_IdentifyMCU(idcode)
Target_IdentifyMCU(idcode) ==
    IF idcode = IDCODE_CORTEX_M0 THEN MCU_TYPE_CORTEX_M0
    ELSE IF idcode = IDCODE_CORTEX_M3 THEN MCU_TYPE_CORTEX_M3
    ELSE IF idcode = IDCODE_CORTEX_M4 THEN MCU_TYPE_CORTEX_M4
    ELSE MCU_TYPE_UNKNOWN

\* the target's answers to transaction n and the one after it; the target
\* goes on answering as in the last entry of its script
AnswersFrom(tgts, n) ==
    [k \in 1 .. 2 |->
        tgts[IF n + k - 1 > Len(tgts) THEN Len(tgts) ELSE n + k - 1]]

\* a run of bus operations: ret of the last one, the number of transactions
\* used, the AP writes made
BusStart(used) == [ret |-> 0, used |-> used, log |-> <<>>]

\* if (SWD_WriteAP(addr, data) != 0) return -1; after the run st
BusWriteAP(addr, data, tgts, st) ==
    IF st.ret # 0 THEN st
    ELSE [ret  |-> SWD_WriteAP(addr, data, AnswersFrom(tgts, st.used + 1)).ret,
          used |-> st.used + 1,
          log  |-> Append(st.log, [op |-> "WriteAP", addr |-> addr,
                                   data |-> data])]

\* Target_WriteMemory(address, &value, 4) after the run st
Target_WriteMemory(address, value, tgts, st) ==
    BusWriteAP(AP_DRW, value, tgts,
        BusWriteAP(AP_TAR, address, tgts,
            BusWriteAP(AP_CSW, CSW_WORD_AUTOINC, tgts, st)))

\* Flash_Unlock() after the run st
Flash_Unlock(tgts, st) ==
    Target_WriteMemory(FLASH_KEYR_M3, FLASH_KEY2, tgts,
        Target_WriteMemory(FLASH_KEYR_M3, FLASH_KEY1, tgts, st))

(***************************************************************************)
(* swd_dap.c : memory transfers of any size, core halt, flash lock         *)
(***************************************************************************)
FLASH_CR_M3   == U32AddSmall(FLASH_BASE_M3, 16)
FLASH_CR_LOCK == 128

\* byte j of a word: (value >> (j * 8)) & 0xFF
ByteOf(value, j) ==
    IF j = 0 THEN value[2] % 256
    ELSE IF j = 1 THEN value[2] \div 256
    ELSE IF j = 2 THEN value[1] % 256
    ELSE value[1] \div 256

\* data[k] of a buffer of size bytes, 0 for the bytes the inner loop leaves out
ByteAt(data, k, size) == IF k < size THEN data[k + 1] ELSE 0

\* the word the inner loop of Target_WriteMemory assembles at offset i
WordAt(data, i, size) ==
    U32(ByteAt(data, i + 2, size) + 256 * ByteAt(data, i + 3, size),
        ByteAt(data, i, size) + 256 * ByteAt(data, i + 1, size))

\* the bytes the inner loop of Target_ReadMemory copies at offset i
BytesAt(value, i, size) ==
    [j \in 1 .. (IF size - i < 4 THEN size - i ELSE 4) |-> ByteOf(value, j - 1)]

\* a run of bus operations that reads: BusStart with the word last read and
\* the bytes stored in the caller's buffer
ReadRun(st, word, data) ==
    [ret |-> st.ret, used |-> st.used, log |-> st.log, word |-> word,
     data |-> data]

\* the run st after SWD_ReadAP(addr, &value) came back as r
BusReadAPOn(addr, r, st) ==
    [ret  |-> r.ret,
     used |-> st.used + Len(r.requests),
     log  |-> Append(st.log, [op |-> "ReadAP", addr |-> addr,
                              data |-> r.data]),
     word |-> r.data,
     data |-> st.data]

\* if (SWD_ReadAP(addr, &value) != 0) return -1; after the run st
BusReadAP(addr, tgts, st) ==
    IF st.ret # 0 THEN st
    ELSE BusReadAPOn(addr,
                     SWD_ReadAP(addr, st.word, AnswersFrom(tgts, st.used + 1)),
                     st)

RECURSIVE ReadWords(_, _, _, _)
RECURSIVE ReadWordsOn(_, _, _, _)
\* the read loop of Target_ReadMemory from offset i on, st being the run
\* after the SWD_ReadAP of this round
ReadWordsOn(i, size, tgts, st) ==
    IF st.ret # 0 THEN [st EXCEPT !.ret = -1]
    ELSE ReadWords(i + 4, size, tgts,
                   [st EXCEPT !.data = @ \o BytesAt(st.word, i, size)])

ReadWords(i, size, tgts, st) ==
    IF st.ret # 0 THEN [st EXCEPT !.ret = -1]
    ELSE IF i >= size THEN st
    ELSE ReadWordsOn(i, size, tgts, BusReadAP(AP_DRW, tgts, st))

\* Target_ReadMemory(address, data, size) after the run st; .data are the
\* bytes stored in the buffer
Target_ReadMemory(address, size, tgts, st) ==
    IF size = 0 THEN ReadRun([st EXCEPT !.ret = -1], U32Zero, <<>>)
    ELSE ReadWords(0, size, tgts,
             ReadRun(BusWriteAP(AP_TAR, address, tgts,
                         BusWriteAP(AP_CSW, CSW_WORD_AUTOINC, tgts, st)),
                     U32Zero, <<>>))

RECURSIVE WriteWords(_, _, _, _, _)
\* the write loop of Target_WriteMemory from offset i on
WriteWords(data, i, size, tgts, st) ==
    IF st.ret # 0 THEN [st EXCEPT !.ret = -1]
    ELSE IF i >= size THEN st
    ELSE WriteWords(data, i + 4, size, tgts,
                    BusWriteAP(AP_DRW, WordAt(data, i, size), tgts, st))

\* Target_WriteMemory(address, data, size) for a buffer of any size
Target_WriteMemoryBytes(address, data, size, tgts, st) ==
    IF size = 0 THEN [st EXCEPT !.ret = -1]
    ELSE WriteWords(data, 0, size, tgts,
             BusWriteAP(AP_TAR, address, tgts,
                 BusWriteAP(AP_CSW, CSW_WORD_AUTOINC, tgts, st)))

\* Target_HaltCore(): the value 0xA05F0003 goes into a local variable, no
\* bus operation is made
Target_HaltCore(tgts, st) == [st EXCEPT !.ret = 0]

\* Flash_Lock()
Flash_Lock(tgts, st) ==
    Target_WriteMemory(FLASH_CR_M3, U32(0, FLASH_CR_LOCK), tgts, st)

(***************************************************************************)
(* swd_dap.c : flash functions over the memory layer.  Target_ReadMemory   *)
(* and Target_WriteMemory are taken by their results, which a target       *)
(* description t gives: t.rdFail / t.wrFail is the number of the call of   *)
(* Target_ReadMemory / Target_WriteMemory that fails (0: none does), the   *)
(* status register reads BSY set in the first t.busy polls of a wait and   *)
(* t.status afterwards, and the flash holds the bytes of FlashByte.        *)
(***************************************************************************)
FLASH_SR_M3       == U32AddSmall(FLASH_BASE_M3, 12)
FLASH_CR_PG       == 1
FLASH_CR_MER      == 4
FLASH_CR_STRT     == 64
FLASH_SR_BSY      == 1
FLASH_SR_PGERR    == 4
FLASH_SR_WRPRTERR == 16
FLASH_SR_EOP      == 32
\* uint32_t timeout = 1000 of Flash_WaitBusy
WaitBusyTimeout   == 1000
\* sizeof(read_buffer) of Flash_Verify
ReadBufferSize    == 256

\* the four bytes of a word in memory, and of a half-word
WordBytes(value) == [j \in 1 .. 4 |-> ByteOf(value, j - 1)]
HalfBytes(half_word) == <<half_word % 256, half_word \div 256>>

\* a run of memory calls: ret of the last one, the numbers of read and write
\* calls made, the calls in order, the status word last read
MemStart == [ret |-> 0, reads |-> 0, writes |-> 0, log |-> <<>>, status |-> 0]

\* Target_WriteMemory(address, data, size) after the run st
MemWrite(address, data, size, t, st) ==
    [st EXCEPT !.ret = IF t.wrFail = st.writes + 1 THEN -1 ELSE 0,
               !.writes = @ + 1,
               !.log = Append(@, [op |-> "write", address |-> address,
                                  data |-> data, size |-> size])]

\* return -1 after the run st
MemFailed(st) == [st EXCEPT !.ret = -1]

\* poll k of a wait that starts after the run st: the return value of
\* Target_ReadMemory(sr_addr, &status, 4) and the status it delivers
PollRet(t, st, k) == IF t.rdFail = st.reads + k THEN -1 ELSE 0
PollStatus(t, k) ==
    IF k <= t.busy THEN BitOrN(t.status, FLASH_SR_BSY, 8) ELSE t.status

\* poll k ends the while loop: by return -1, or by break
PollStops(t, st, k) ==
    \/ PollRet(t, st, k) # 0
    \/ BitAndN(PollStatus(t, k), FLASH_SR_BSY, 8) = 0

\* Flash_WaitBusy behind its loop, which made polls polls and left the
\* uint32_t timeout and status: the two tests of timeout and of the error bits
WaitBusyAfter(sr_addr, polls, timeout, status, st) ==
    [st EXCEPT !.ret = IF timeout = U32Zero THEN -1
                       ELSE IF BitAndN(status,
                                       FLASH_SR_PGERR + FLASH_SR_WRPRTERR,
                                       8) # 0
                       THEN -1 ELSE 0,
               !.reads = @ + polls,
               !.status = status,
               !.log = Append(@, [op |-> "wait", address |-> sr_addr,
                                  data |-> <<status>>, size |-> polls])]

\* Flash_WaitBusy whose loop is ended by poll k (while (timeout--) has left
\* timeout at WaitBusyTimeout - k)
WaitBusyStopped(sr_addr, t, st, k) ==
    IF PollRet(t, st, k) # 0
    THEN [st EXCEPT !.ret = -1, !.reads = @ + k,
                    !.log = Append(@, [op |-> "wait", address |-> sr_addr,
                                       data |-> <<>>, size |-> k])]
    ELSE WaitBusyAfter(sr_addr, k, U32(0, WaitBusyTimeout - k),
                       PollStatus(t, k), st)

\* Flash_WaitBusy(sr_addr) after the run st.  If no poll ends the loop, the
\* test while (timeout--) ends it with timeout at 0 and decrements it once
\* more, to 0xFFFFFFFF.
Flash_WaitBusy(sr_addr, t, st) ==
    IF \E k \in 1 .. WaitBusyTimeout : PollStops(t, st, k)
    THEN WaitBusyStopped(sr_addr, t, st,
             CHOOSE k \in 1 .. WaitBusyTimeout :
                 /\ PollStops(t, st, k)
                 /\ \A j \in 1 .. k - 1 : ~PollStops(t, st, j))
    ELSE WaitBusyAfter(sr_addr, WaitBusyTimeout, U32(65535, 65535),
                       PollStatus(t, WaitBusyTimeout), st)

\* Flash_EraseFull: after the wait
EraseFullWaited(t, b) ==
    IF b.ret # 0 THEN MemFailed(b)
    ELSE MemWrite(FLASH_CR_M3, WordBytes(U32Zero), 4, t, b)

\* Flash_EraseFull: after the write of MER | STRT
EraseFullStarted(t, w) ==
    IF w.ret # 0 THEN MemFailed(w)
    ELSE EraseFullWaited(t, Flash_WaitBusy(FLASH_SR_M3, t, w))

\* Flash_EraseFull: after the write of MER
EraseFullSet(t, w) ==
    IF w.ret # 0 THEN MemFailed(w)
    ELSE EraseFullStarted(t,
             MemWrite(FLASH_CR_M3,
                      WordBytes(U32(0, FLASH_CR_MER + FLASH_CR_STRT)), 4, t, w))

\* Flash_EraseFull() after the run st
Flash_EraseFull(t, st) ==
    EraseFullSet(t, MemWrite(FLASH_CR_M3, WordBytes(U32(0, FLASH_CR_MER)), 4,
                             t, st))

\* half_word = data[i]; if (i + 1 < size) half_word |= data[i + 1] << 8
HalfWordAt(data, i, size) ==
    data[i + 1] + 256 * (IF i + 1 < size THEN data[i + 2] ELSE 0)

\* Flash_Program: clear PG on error and return -1
ProgramFailed(t, st) ==
    MemFailed(MemWrite(FLASH_CR_M3, WordBytes(U32Zero), 4, t, st))

RECURSIVE ProgramLoop(_, _, _, _, _, _)
RECURSIVE ProgramWrote(_, _, _, _, _, _)
RECURSIVE ProgramWaited(_, _, _, _, _, _)
\* Flash_Program: round i after its wait came back as b
ProgramWaited(address, data, size, i, t, b) ==
    IF b.ret # 0 THEN ProgramFailed(t, b)
    ELSE ProgramLoop(address, data, size, i + 2, t, b)

\* Flash_Program: round i after its half-word write came back as w
ProgramWrote(address, data, size, i, t, w) ==
    IF w.ret # 0 THEN ProgramFailed(t, w)
    ELSE ProgramWaited(address, data, size, i, t,
                       Flash_WaitBusy(FLASH_SR_M3, t, w))

\* Flash_Program: the for loop from i on, and the clearing of PG behind it
ProgramLoop(address, data, size, i, t, st) ==
    IF i >= size
    THEN MemWrite(FLASH_CR_M3, WordBytes(U32Zero), 4, t, st)
    ELSE ProgramWrote(address, data, size, i, t,
             MemWrite(U32AddSmall(address, i),
                      HalfBytes(HalfWordAt(data, i, size)), 2, t, st))

\* Flash_Program: after the write of PG
ProgramSet(address, data, size, t, w) ==
    IF w.ret # 0 THEN MemFailed(w)
    ELSE ProgramLoop(address, data, size, 0, t, w)

\* Flash_Program(address, data, size) after the run st
Flash_Program(address, data, size, t, st) ==
    IF size = 0 THEN MemFailed(st)
    ELSE ProgramSet(address, data, size, t,
             MemWrite(FLASH_CR_M3, WordBytes(U32(0, FLASH_CR_PG)), 4, t, st))

\* the byte the flash holds at an address of its first 64 KB
ImageByte(o) == (7 * o + 3) % 256
FlashByte(t, address) ==
    IF U32Lo(address) = t.flip
    THEN (ImageByte(U32Lo(address)) + 1) % 256
    ELSE ImageByte(U32Lo(address))

\* Target_ReadMemory(address, read_buffer, size) after the run st; .buf is
\* what the buffer holds afterwards
MemRead(address, size, t, st) ==
    [ret    |-> IF t.rdFail = st.reads + 1 THEN -1 ELSE 0,
     reads  |-> st.reads + 1,
     writes |-> st.writes,
     status |-> st.status,
     log    |-> Append(st.log, [op |-> "read", address |-> address,
                                data |-> <<>>, size |-> size]),
     buf    |-> [j \in 1 .. size |-> FlashByte(t, U32AddSmall(address, j - 1))]]

\* the run of memory calls up to the read r
MemRunOf(r) ==
    [ret |-> r.ret, reads |-> r.reads, writes |-> r.writes, log |-> r.log,
     status |-> r.status]

\* a comparison that looks at the first byte of a chunk only
ChunkMatches_FirstByte(read_buffer, data, i, chunk_size) ==
    read_buffer[1] = data[i + 1]

\* the compare loop: no j < chunk_size with read_buffer[j] != data[i + j]
ChunkMatches(read_buffer, data, i, chunk_size) ==
    \A j \in 0 .. chunk_size - 1 : read_buffer[j + 1] = data[i + j + 1]

RECURSIVE VerifyLoop(_, _, _, _, _, _)
RECURSIVE VerifyRead(_, _, _, _, _, _, _)
\* Flash_Verify: round i after its read came back as r
VerifyRead(address, data, size, i, chunk_size, t, r) ==
    IF r.ret # 0 THEN MemFailed(MemRunOf(r))
    ELSE IF ~ChunkMatches(r.buf, data, i, chunk_size)
    THEN MemFailed(MemRunOf(r))
    ELSE VerifyLoop(address, data, size, i + ReadBufferSize, t, MemRunOf(r))

\* Flash_Verify: the for loop from i on
VerifyLoop(address, data, size, i, t, st) ==
    IF i >= size THEN [st EXCEPT !.ret = 0]
    ELSE VerifyRead(address, data, size, i,
                    IF size - i < ReadBufferSize THEN size - i
                    ELSE ReadBufferSize,
                    t,
                    MemRead(U32AddSmall(address, i),
                            IF size - i < ReadBufferSize THEN size - i
                            ELSE ReadBufferSize,
                            t, st))

\* Flash_Verify(address, data, size) after the run st
Flash_Verify(address, data, size, t, st) ==
    IF size = 0 THEN MemFailed(st)
    ELSE VerifyLoop(address, data, size, 0, t, st)

(***************************************************************************)
(* main.c : Program_Target, steps 1 to 4 up to the flash unlock            *)
(***************************************************************************)
RESP_ERR_FILE_NOT_FOUND == "ERR_FILE_NOT_FOUND"
RESP_ERR_TARGET_CONNECT == "ERR_TARGET_CONNECT"
RESP_ERR_PROGRAM_FAIL   == "ERR_PROGRAM_FAIL"

\* Program_Target has returned ret after the calls listed and the response
ProgReturn(ret, resp, calls, idcode, bus) ==
    [pc |-> "returned", ret |-> ret, resp |-> resp, calls |-> calls,
     idcode |-> idcode, log |-> bus.log]

\* step 4 after Flash_Unlock came back as u
ProgAfterUnlock(idcode, mcu_type, u) ==
    IF u.ret # 0
    THEN ProgReturn(-4, RESP_ERR_PROGRAM_FAIL,
                    <<"SD_OpenFile", "Target_Connect", "Target_Detect",
                      "Target_IdentifyMCU", "Flash_Unlock", "SD_CloseFile">>,
                    idcode, u)
    ELSE [pc |-> "erase", ret |-> 0, resp |-> "",
          calls |-> <<"SD_OpenFile", "Target_Connect", "Target_Detect",
                      "Target_IdentifyMCU", "Flash_Unlock">>,
          idcode |-> idcode, log |-> u.log]

\* step 3 after Target_Detect(&idcode) came back as d: the MCU type is
\* printed, whatever it is, and the flash is unlocked
ProgAfterDetect(d, tgts) ==
    IF d.ret # 0
    THEN ProgReturn(-3, RESP_ERR_TARGET_CONNECT,
                    <<"SD_OpenFile", "Target_Connect", "Target_Detect",
                      "SD_CloseFile">>, d.data, BusStart(2))
    ELSE ProgAfterUnlock(d.data, Target_IdentifyMCU(d.data),
                         Flash_Unlock(tgts, BusStart(2)))

\* step 2 after Target_Connect() came back as c; junk is what the
\* uninitialised local idcode holds when Target_Detect is handed its address
ProgAfterConnect(c, junk, tgts) ==
    IF c.ret # 0
    THEN ProgReturn(-2, RESP_ERR_TARGET_CONNECT,
                    <<"SD_OpenFile", "Target_Connect", "SD_CloseFile">>,
                    junk, BusStart(1))
    ELSE ProgAfterDetect(Target_Detect(junk, AnswersFrom(tgts, 2)), tgts)

\* Program_Target(filename): found tells whether SD_OpenFile finds the file
Program_Target(found, junk, tgts) ==
    IF ~found
    THEN ProgReturn(-1, RESP_ERR_FILE_NOT_FOUND, <<"SD_OpenFile">>, junk,
                    BusStart(0))
    ELSE ProgAfterConnect(Target_Connect(AnswersFrom(tgts, 1)), junk, tgts)

(***************************************************************************)
(* SWD harness: a target that answers each transaction with a chosen ACK,  *)
(* data word and parity bit; the host calls one operation at a time        *)
(***************************************************************************)
TgtAcks  == {SWD_ACK_OK, SWD_ACK_WAIT, SWD_ACK_FAULT, SWD_ACK_ERROR}
\* 0, 0xFFFFFFFF, the three known IDCODEs and 0x2BA01477, an IDCODE of none
\* of the three families
TgtWords == {U32Zero, U32(65535, 65535), IDCODE_CORTEX_M3, IDCODE_CORTEX_M0,
             IDCODE_CORTEX_M4, U32(11168, 5239)}
\* a target that answers OK goes on with a data word and a parity bit; after
\* any other ACK there is no data phase (word and par are not sampled)
TgtAnswers ==
    [ack : {SWD_ACK_OK}, word : TgtWords, par : {0, 1}]
    \cup [ack : TgtAcks \ {SWD_ACK_OK}, word : {U32Zero}, par : {0}]
MaxAnswers == 2
RegAddrs == {0, 4, 8, 12}
HostWords == {U32Zero, U32(41055, 3)}   \* 0, and the DHCSR halt value

NoOp  == [name |-> "none", addr |-> 0, data |-> U32Zero]
NoOut == [ret |-> 0, data |-> U32Zero, requests |-> <<>>, wire |-> <<>>]

SwdReadDP ==
    /\ UNCHANGED <<plVars, hexVars, progVars, uartVars, ledVars>>
    /\ swdPc = "idle"
    /\ swdPc' = "called"
    /\ \E addr \in RegAddrs, d \in HostWords :
         /\ swdOp' = [name |-> "ReadDP", addr |-> addr, data |-> d]
         /\ swdOut' = SWD_ReadDP(addr, d, swdTgt)
    /\ UNCHANGED swdTgt

SwdWriteDP ==
    /\ UNCHANGED <<plVars, hexVars, progVars, uartVars, ledVars>>
    /\ swdPc = "idle"
    /\ swdPc' = "called"
    /\ \E addr \in RegAddrs, d \in HostWords :
         /\ swdOp' = [name |-> "WriteDP", addr |-> addr, data |-> d]
         /\ swdOut' = SWD_WriteDP(addr, d, swdTgt)
    /\ UNCHANGED swdTgt

SwdReadAP ==
    /\ UNCHANGED <<plVars, hexVars, progVars, uartVars, ledVars>>
    /\ swdPc = "idle"
    /\ swdPc' = "called"
    /\ \E addr \in RegAddrs, d \in HostWords :
         /\ swdOp' = [name |-> "ReadAP", addr |-> addr, data |-> d]
         /\ swdOut' = SWD_ReadAP(addr, d, swdTgt)
    /\ UNCHANGED swdTgt

SwdWriteAP ==
    /\ UNCHANGED <<plVars, hexVars, progVars, uartVars, ledVars>>
    /\ swdPc = "idle"
    /\ swdPc' = "called"
    /\ \E addr \in RegAddrs, d \in HostWords :
         /\ swdOp' = [name |-> "WriteAP", addr |-> addr, data |-> d]
         /\ swdOut' = SWD_WriteAP(addr, d, swdTgt)
    /\ UNCHANGED swdTgt

SwdConnect ==
    /\ UNCHANGED <<plVars, hexVars, progVars, uartVars, ledVars>>
    /\ swdPc = "idle"
    /\ swdPc' = "called"
    /\ swdOp' = [name |-> "Connect", addr |-> DP_IDCODE, data |-> U32Zero]
    /\ swdOut' = Target_Connect(swdTgt)
    /\ UNCHANGED swdTgt

SwdNext ==
    \/ SwdReadDP
    \/ SwdWriteDP
    \/ SwdReadAP
    \/ SwdWriteAP
    \/ SwdConnect

(***************************************************************************)
(* Memory bus harness: the host calls one function of the memory layer     *)
(* against a target that answers each SWD transaction as its script says   *)
(***************************************************************************)
MaxBusAnswers == 2

\* OK with the word 0 or 0x11223344 and either parity bit, or FAULT
BusAnswers ==
    [ack : {SWD_ACK_OK}, word : {U32Zero, U32(4386, 13124)}, par : {0, 1}]
    \cup {[ack |-> SWD_ACK_FAULT, word |-> U32Zero, par |-> 0]}

\* 0x20000000, and 0x200003F8 which is 8 bytes below a 1 KB boundary
BusAddrs == {U32(8192, 0), U32(8192, 1016)}
BusSizes == {1, 2, 4, 6, 16}
\* the caller's buffer for a write
BusBytes == [k \in 1 .. 16 |-> 160 + k]

NoBusOp == [name |-> "none", address |-> U32Zero, size |-> 0, data |-> <<>>]

BusUnlock ==
    /\ UNCHANGED <<plVars, hexVars, progVars, uartVars, ledVars>>
    /\ swdPc = "idle"
    /\ swdPc' = "called"
    /\ swdOp' = [NoBusOp EXCEPT !.name = "Flash_Unlock"]
    /\ swdOut' = Flash_Unlock(swdTgt, BusStart(0))
    /\ UNCHANGED swdTgt

BusLock ==
    /\ UNCHANGED <<plVars, hexVars, progVars, uartVars, ledVars>>
    /\ swdPc = "idle"
    /\ swdPc' = "called"
    /\ swdOp' = [NoBusOp EXCEPT !.name = "Flash_Lock"]
    /\ swdOut' = Flash_Lock(swdTgt, BusStart(0))
    /\ UNCHANGED swdTgt

BusHaltCore ==
    /\ UNCHANGED <<plVars, hexVars, progVars, uartVars, ledVars>>
    /\ swdPc = "idle"
    /\ swdPc' = "called"
    /\ swdOp' = [NoBusOp EXCEPT !.name = "Target_HaltCore"]
    /\ swdOut' = Target_HaltCore(swdTgt, BusStart(0))
    /\ UNCHANGED swdTgt

BusReadMemory ==
    /\ UNCHANGED <<plVars, hexVars, progVars, uartVars, ledVars>>
    /\ swdPc = "idle"
    /\ swdPc' = "called"
    /\ \E address \in BusAddrs, size \in BusSizes :
         /\ swdOp' = [name |-> "Target_ReadMemory", address |-> address,
                      size |-> size, data |-> <<>>]
         /\ swdOut' = Target_ReadMemory(address, size, swdTgt, BusStart(0))
    /\ UNCHANGED swdTgt

BusWriteMemory ==
    /\ UNCHANGED <<plVars, hexVars, progVars, uartVars, ledVars>>
    /\ swdPc = "idle"
    /\ swdPc' = "called"
    /\ \E address \in BusAddrs, size \in BusSizes :
         /\ swdOp' = [name |-> "Target_WriteMemory", address |-> address,
                      size |-> size, data |-> SubSeq(BusBytes, 1, size)]
         /\ swdOut' = Target_WriteMemoryBytes(address, SubSeq(BusBytes, 1, size),
                                              size, swdTgt, BusStart(0))
    /\ UNCHANGED swdTgt

BusNext ==
    \/ BusUnlock
    \/ BusLock
    \/ BusHaltCore
    \/ BusReadMemory
    \/ BusWriteMemory

(***************************************************************************)
(* Flash harness: the host calls one flash function against a target       *)
(* described by swdTgt                                                     *)
(***************************************************************************)
\* the status register reads BSY in no poll, in the first one, in all but
\* the last poll the loop can make, in all of them
BusyPolls == {0, 1, WaitBusyTimeout - 1, WaitBusyTimeout}
\* the status behind BSY: nothing, an error bit, end of operation
SrWords == {0, FLASH_SR_PGERR, FLASH_SR_WRPRTERR, FLASH_SR_EOP}
\* the offset at which the flash differs from the image, -1 if nowhere
FlipOffsets == {0, 255, 256, 259}

FlashTargets ==
    [busy : BusyPolls, status : SrWords, rdFail : {0}, wrFail : {0},
     flip : {-1}]
    \cup [busy : {0}, status : {0}, rdFail : {0, 1, 2}, wrFail : {0, 1, 2, 3},
          flip : {-1}]
    \cup [busy : {0}, status : {0}, rdFail : {0, 2}, wrFail : {0},
          flip : FlipOffsets]

\* 0x08000000, the image expected there, the sizes handed in
FlashImageBase == U32(2048, 0)
FlashImage(size) == [k \in 1 .. size |-> ImageByte(k - 1)]
ProgramSizes == {1, 2, 3, 4}
VerifySizes  == {1, 256, 260}

FlashWaitBusy ==
    /\ UNCHANGED <<plVars, hexVars, progVars, uartVars, ledVars>>
    /\ swdPc = "idle"
    /\ swdPc' = "called"
    /\ swdOp' = [NoBusOp EXCEPT !.name = "Flash_WaitBusy",
                                !.address = FLASH_SR_M3]
    /\ swdOut' = Flash_WaitBusy(FLASH_SR_M3, swdTgt, MemStart)
    /\ UNCHANGED swdTgt

FlashEraseFull ==
    /\ UNCHANGED <<plVars, hexVars, progVars, uartVars, ledVars>>
    /\ swdPc = "idle"
    /\ swdPc' = "called"
    /\ swdOp' = [NoBusOp EXCEPT !.name = "Flash_EraseFull"]
    /\ swdOut' = Flash_EraseFull(swdTgt, MemStart)
    /\ UNCHANGED swdTgt

FlashProgram ==
    /\ UNCHANGED <<plVars, hexVars, progVars, uartVars, ledVars>>
    /\ swdPc = "idle"
    /\ swdPc' = "called"
    /\ \E size \in ProgramSizes :
         /\ swdOp' = [name |-> "Flash_Program", address |-> FlashImageBase,
                      size |-> size, data |-> FlashImage(size)]
         /\ swdOut' = Flash_Program(FlashImageBase, FlashImage(size), size,
                                    swdTgt, MemStart)
    /\ UNCHANGED swdTgt

FlashVerify ==
    /\ UNCHANGED <<plVars, hexVars, progVars, uartVars, ledVars>>
    /\ swdPc = "idle"
    /\ swdPc' = "called"
    /\ \E size \in VerifySizes :
         /\ swdOp' = [name |-> "Flash_Verify", address |-> FlashImageBase,
                      size |-> size, data |-> FlashImage(size)]
         /\ swdOut' = Flash_Verify(FlashImageBase, FlashImage(size), size,
                                   swdTgt, MemStart)
    /\ UNCHANGED swdTgt

FlashNext ==
    \/ FlashWaitBusy
    \/ FlashEraseFull
    \/ FlashProgram
    \/ FlashVerify

(***************************************************************************)
(* Programming session: one call of Program_Target                         *)
(***************************************************************************)
NoProgIn  == [found |-> FALSE, junk |-> U32Zero, tgts |-> <<>>]
NoProgOut == [pc |-> "idle", ret |-> 0, resp |-> "", calls |-> <<>>,
              idcode |-> U32Zero, log |-> <<>>]

\* the command handler calls Program_Target
ProgramTarget ==
    /\ UNCHANGED <<plVars, hexVars, swdVars, uartVars, ledVars>>
    /\ progPc = "idle"
    /\ progOut' = Program_Target(progIn.found, progIn.junk, progIn.tgts)
    /\ progPc' = progOut'.pc
    /\ UNCHANGED progIn

ProgNext == ProgramTarget

(***************************************************************************)
(* main.c : Program_Target step by step.  The functions of swd_dap.c it    *)
(* calls are taken by their results: the IDCODE read inside Target_Connect *)
(* by its return value and the word it leaves, Target_Detect, Flash_Unlock *)
(* and Flash_EraseFull by their return values, Flash_Program and           *)
(* Flash_Verify by the return values the sector callback gets (SinkRets).  *)
(* HEX_ProcessFile runs as the assembler actions above, on the file of the *)
(* card.  Flash_Lock, SD_CloseFile and Target_Reset have their results     *)
(* ignored by the code.                                                    *)
(***************************************************************************)
RESP_OK              == "OK"
RESP_ERR_HEX_PARSE   == "ERR_HEX_PARSE"
RESP_ERR_VERIFY_FAIL == "ERR_VERIFY_FAIL"

\* a run of Program_Target: where it stands, the value returned, the
\* responses sent with UART_SendResponse, the functions called so far in
\* order, and how the HEX_ProcessFile passes made so far have ended
SessAt(pc, ret, resps, calls) ==
    [pc |-> pc, ret |-> ret, resps |-> resps, calls |-> calls,
     exits |-> <<>>]

\* Target_Connect, the IDCODE read coming back as idread = [ret, data]
Target_ConnectOn(idread) ==
    ConnectAfter(SWD_LineReset,
                 [ret |-> idread.ret, data |-> idread.data,
                  requests |-> <<>>, wire |-> <<>>])

\* a step 4 that goes on to erase whatever Flash_Unlock returned
Session_Unlocked_Unchecked(unlock, erase, calls) ==
    SessAt("program", 0, <<>>,
           calls \o <<"Flash_Unlock", "Flash_EraseFull",
                      "HEX_ProcessFile(Flash_Program)">>)

\* step 4: Flash_Unlock returned unlock; Flash_EraseFull, if it is called,
\* returns erase; then step 5 starts
Session_Unlocked(unlock, erase, calls) ==
    IF unlock # 0
    THEN SessAt("returned", -4, <<RESP_ERR_PROGRAM_FAIL>>,
                calls \o <<"Flash_Unlock", "SD_CloseFile">>)
    ELSE IF erase # 0
    THEN SessAt("returned", -5, <<RESP_ERR_PROGRAM_FAIL>>,
                calls \o <<"Flash_Unlock", "Flash_EraseFull", "Flash_Lock",
                           "SD_CloseFile">>)
    ELSE SessAt("program", 0, <<>>,
                calls \o <<"Flash_Unlock", "Flash_EraseFull",
                           "HEX_ProcessFile(Flash_Program)">>)

\* steps 1 to 4: found tells whether SD_OpenFile finds the file, c is the
\* outcome of Target_Connect, detect the return value of Target_Detect
Session_Begin(found, c, detect, unlock, erase) ==
    IF ~found
    THEN SessAt("returned", -1, <<RESP_ERR_FILE_NOT_FOUND>>, <<"SD_OpenFile">>)
    ELSE IF c.ret # 0
    THEN SessAt("returned", -2, <<RESP_ERR_TARGET_CONNECT>>,
                <<"SD_OpenFile", "Target_Connect", "SD_CloseFile">>)
    ELSE IF detect # 0
    THEN SessAt("returned", -3, <<RESP_ERR_TARGET_CONNECT>>,
                <<"SD_OpenFile", "Target_Connect", "Target_Detect",
                  "SD_CloseFile">>)
    ELSE Session_Unlocked(unlock, erase,
                          <<"SD_OpenFile", "Target_Connect", "Target_Detect",
                            "Target_IdentifyMCU">>)

\* a step 5 that reports a failed programming pass with the code of the
\* verify pass
Session_AfterProgram_VerifyCode(s, result, exit) ==
    IF result # 0
    THEN [s EXCEPT !.pc = "returned", !.ret = -6,
                   !.resps = Append(@, RESP_ERR_VERIFY_FAIL),
                   !.calls = @ \o <<"Flash_Lock", "SD_CloseFile">>,
                   !.exits = Append(@, [ret |-> result, exit |-> exit])]
    ELSE [s EXCEPT !.pc = "verify",
                   !.calls = @ \o <<"SD_Rewind",
                                    "HEX_ProcessFile(Flash_Verify)">>,
                   !.exits = Append(@, [ret |-> result, exit |-> exit])]

\* step 5 after HEX_ProcessFile(&file, Flash_Program) returned result
Session_AfterProgram(s, result, exit) ==
    IF result # 0
    THEN [s EXCEPT !.pc = "returned", !.ret = -6,
                   !.resps = Append(@, RESP_ERR_PROGRAM_FAIL),
                   !.calls = @ \o <<"Flash_Lock", "SD_CloseFile">>,
                   !.exits = Append(@, [ret |-> result, exit |-> exit])]
    ELSE [s EXCEPT !.pc = "verify",
                   !.calls = @ \o <<"SD_Rewind",
                                    "HEX_ProcessFile(Flash_Verify)">>,
                   !.exits = Append(@, [ret |-> result, exit |-> exit])]

\* steps 6 and 7 after HEX_ProcessFile(&file, Flash_Verify) returned result
Session_AfterVerify(s, result, exit) ==
    IF result # 0
    THEN [s EXCEPT !.pc = "returned", !.ret = -7,
                   !.resps = Append(@, RESP_ERR_VERIFY_FAIL),
                   !.calls = @ \o <<"Flash_Lock", "SD_CloseFile">>,
                   !.exits = Append(@, [ret |-> result, exit |-> exit])]
    ELSE [s EXCEPT !.pc = "returned", !.ret = 0,
                   !.calls = @ \o <<"Flash_Lock", "SD_CloseFile",
                                    "Target_Reset">>,
                   !.exits = Append(@, [ret |-> result, exit |-> exit])]

(***************************************************************************)
(* Session inputs: what the IDCODE read gives, what the target functions   *)
(* return, the file on the card, the card's sector 0                       *)
(***************************************************************************)
\* a failed read, or a read of 0, 0xFFFFFFFF, the Cortex-M3 IDCODE, or
\* 0x2BA01477
IdReads ==
    {[ret |-> -1, data |-> U32Zero]}
    \cup [ret : {0}, data : {U32Zero, U32(65535, 65535), IDCODE_CORTEX_M3,
                             U32(11168, 5239)}]

\* a line that does not start with a colon
LineNoColon == <<48, 48, 48, 48>>

\* a complete image; a line with a wrong checksum; a stream that ends
\* without an end of file record; a record of type 02; a line without colon
SessStreams ==
    {JoinLines(<<LineExt0800, LineData0080, LineEOF>>, <<13, 10>>, TRUE),
     JoinLines(<<LineData0080, LineDataBad, LineEOF>>, <<13, 10>>, TRUE),
     JoinLines(<<LineData0080>>, <<13, 10>>, TRUE),
     JoinLines(<<LineType02, LineEOF>>, <<13, 10>>, TRUE),
     JoinLines(<<LineNoColon, LineEOF>>, <<13, 10>>, TRUE)}

\* sector 0 of the card: a boot sector starting EB 3C 90 and ending 55 AA,
\* without or with a carriage return as its fourth byte
BootSector(b4) ==
    [k \in 1 .. SECTOR_SIZE |->
        IF k = 1 THEN 235 ELSE IF k = 2 THEN 60 ELSE IF k = 3 THEN 144
        ELSE IF k = 4 THEN b4
        ELSE IF k = SECTOR_SIZE - 1 THEN 85
        ELSE IF k = SECTOR_SIZE THEN 170 ELSE 0]

BootSectors == {BootSector(0), BootSector(13)}

NoSess == SessAt("idle", 0, <<>>, <<>>)

(***************************************************************************)
(* Programming session: actions                                            *)
(***************************************************************************)
\* Program_Target is called and runs up to its first HEX_ProcessFile call,
\* or returns before it
SessBegin ==
    /\ UNCHANGED <<plVars, swdVars, uartVars, ledVars>>
    /\ progPc = "idle"
    /\ progOut' = Session_Begin(progIn.found, Target_ConnectOn(progIn.idread),
                                progIn.detect, progIn.unlock, progIn.erase)
    /\ progPc' = progOut'.pc
    /\ fil' = IF ~progIn.found THEN fil
              ELSE IF progOut'.pc = "returned"
              THEN SD_CloseFile(SD_OpenFile(stream))
              ELSE SD_OpenFile(stream)
    /\ hexPc' = IF progOut'.pc = "program" THEN "idle" ELSE hexPc
    /\ UNCHANGED <<progIn, stream, line_buffer, bytes_read, idx, line_len,
                   sector, current_extended_address, hexRet, hexExit, sinkLog,
                   recLog, passNo, overrun>>

\* the programming pass has returned: fail, or rewind and start verifying
SessAfterProgram ==
    /\ UNCHANGED <<plVars, swdVars, uartVars, ledVars>>
    /\ progPc = "program"
    /\ hexPc = "done"
    /\ progOut' = Session_AfterProgram(progOut, hexRet, hexExit)
    /\ progPc' = progOut'.pc
    /\ fil' = IF hexRet # 0 THEN SD_CloseFile(fil) ELSE SD_Rewind(fil)
    /\ hexPc' = IF hexRet # 0 THEN "closed" ELSE "idle"
    /\ UNCHANGED <<progIn, stream, line_buffer, bytes_read, idx, line_len,
                   sector, current_extended_address, hexRet, hexExit, sinkLog,
                   recLog, passNo, overrun>>

\* the verify pass has returned: fail, or lock, close, reset and return 0
SessAfterVerify ==
    /\ UNCHANGED <<plVars, swdVars, uartVars, ledVars>>
    /\ progPc = "verify"
    /\ hexPc = "done"
    /\ progOut' = Session_AfterVerify(progOut, hexRet, hexExit)
    /\ progPc' = progOut'.pc
    /\ fil' = SD_CloseFile(fil)
    /\ hexPc' = "closed"
    /\ UNCHANGED <<progIn, stream, line_buffer, bytes_read, idx, line_len,
                   sector, current_extended_address, hexRet, hexExit, sinkLog,
                   recLog, passNo, overrun>>

SessNext ==
    \/ SessBegin
    \/ HexCall
    \/ HexReadData
    \/ HexReadFail
    \/ HexEndOfStream
    \/ HexChunkEnd
    \/ HexLine
    \/ SessAfterProgram
    \/ SessAfterVerify

(***************************************************************************)
(* uart.c and the main loop of main.c : the command channel                *)
(***************************************************************************)
RESP_NG == "NG"

MAX_FILENAME_LEN == 128

\* UART_CMD_PREFIX, the characters of "FILE: "
UART_CMD_PREFIX == <<70, 73, 76, 69, 58, 32>>

UART_CMD_PREFIX_LEN == 6

CR == 13

LF == 10

\* the locals of UART_ReceiveCommand after memset: idx = Len(stored), the
\* characters written to the buffer; done and ret are set when it returns
RxStart == [stored |-> <<>>, found_cr |-> FALSE, done |-> FALSE, ret |-> 0]

NoRx == RxStart

\* max_len == 0: return 0 at once
RxRefused == [RxStart EXCEPT !.done = TRUE]

\* one turn of the while (1) of UART_ReceiveCommand in which
\* HAL_UART_Receive hands over the character c: CR is noted and not
\* stored; LF right after CR ends the command with 1; any other character
\* is stored while idx < max_len - 1 and ends the call with 0 otherwise
UART_ReceiveChar(rx, c, max_len) ==
    IF c = CR
    THEN [rx EXCEPT !.found_cr = TRUE]
    ELSE IF c = LF /\ rx.found_cr
    THEN [rx EXCEPT !.done = TRUE, !.ret = 1]
    ELSE IF Len(rx.stored) < max_len - 1
    THEN [rx EXCEPT !.found_cr = FALSE, !.stored = Append(rx.stored, c)]
    ELSE [rx EXCEPT !.found_cr = FALSE, !.done = TRUE, !.ret = 0]

\* the turn in which the timeout has passed without a character
UART_ReceiveTimeout(rx) == [rx EXCEPT !.done = TRUE, !.ret = 0]

\* the string UART_ReceiveCommand leaves in the buffer, which is zeroed at
\* the start, so that the string ends at the first NUL
RxBuffer(rx) == CString(rx.stored)

\* strncmp(command, UART_CMD_PREFIX, UART_CMD_PREFIX_LEN) == 0
HasCmdPrefix(command) ==
    \A k \in 0 .. UART_CMD_PREFIX_LEN - 1 : CharAt(command, k) = UART_CMD_PREFIX[k + 1]

\* UART_ExtractFilePath(command, filepath, max_len): 0 when the command
\* does not start with the prefix or the path does not fit max_len, else 1
\* with the characters behind the prefix copied to filepath
UART_ExtractFilePath(command, max_len) ==
    IF ~HasCmdPrefix(command)
    THEN [ret |-> 0, filepath |-> <<>>]
    ELSE LET path == SubSeq(command, UART_CMD_PREFIX_LEN + 1, strlen(command))
         IN  IF strlen(path) >= max_len
             THEN [ret |-> 0, filepath |-> <<>>]
             ELSE [ret |-> 1, filepath |-> path]

\* what one round of the main loop has done: the two return values, whether
\* Program_Target was called, with which filename and with which return
\* value, and the responses sent by Program_Target and by main
RoundOf(received, extracted, called, filename, result, resps) ==
    [received |-> received, extracted |-> extracted, called |-> called,
     filename |-> filename, result |-> result, resps |-> resps]

\* the response Program_Target has sent when it returns result: one error
\* code before every return but the last
ProgramResponses(result) ==
    IF result = 0 THEN <<>>
    ELSE IF result = -1 THEN <<RESP_ERR_FILE_NOT_FOUND>>
    ELSE IF result \in {-2, -3} THEN <<RESP_ERR_TARGET_CONNECT>>
    ELSE IF result \in {-4, -5, -6} THEN <<RESP_ERR_PROGRAM_FAIL>>
    ELSE <<RESP_ERR_VERIFY_FAIL>>

\* main answers every result with OK
MainResponse_AlwaysOK(result) == <<RESP_OK>>

\* main after Program_Target: if (result == 0) UART_SendResponse(RESP_OK),
\* else nothing ("error already reported")
MainResponse(result) == IF result = 0 THEN <<RESP_OK>> ELSE <<>>

\* the rest of a round of while (1) in main once UART_ReceiveCommand has
\* returned rx.ret, result being the return value of Program_Target when
\* it is called
MainRound(rx, result) ==
    IF rx.ret = 0
    THEN RoundOf(0, 0, FALSE, <<>>, 0, <<>>)
    ELSE LET ext == UART_ExtractFilePath(RxBuffer(rx), MAX_FILENAME_LEN)
         IN  IF ext.ret = 0
             THEN RoundOf(1, 0, FALSE, <<>>, 0, <<RESP_NG>>)
             ELSE RoundOf(1, 1, TRUE, ext.filepath, result,
                          ProgramResponses(result) \o MainResponse(result))

(***************************************************************************)
(* Command channel harness                                                 *)
(***************************************************************************)
\* the k-th character of a generated path: letters, digits, '/' and '.'
PathChar(kind, k) ==
    IF kind = 0 THEN 65 + (k % 26)
    ELSE IF k % 9 = 0 THEN 47
    ELSE IF k % 9 = 5 THEN 46
    ELSE 48 + (k % 10)

PathOf(kind, n) == [k \in 1 .. n |-> PathChar(kind, k)]

PathKinds == {0, 1}

\* path lengths: the empty path, every length the buffers are declared for
\* and the first ones beyond
PathLens == 0 .. MAX_FILENAME_LEN + 1

\* "FILE: <path>\r\n"
CommandOf(path) == UART_CMD_PREFIX \o path \o <<CR, LF>>

\* lines that do not hold a well-formed command: a lower-case prefix, a
\* prefix without the blank, an empty line, a command the sender never ends
\* (UartLines adds two commands in a row and a line of 136 characters
\* whose last eight are "FILE: AB")
OtherLines ==
    { <<102, 105, 108, 101, 58, 32, 97>> \o <<CR, LF>>,
      <<70, 73, 76, 69, 58, 97>> \o <<CR, LF>>,
      <<CR, LF>>,
      UART_CMD_PREFIX \o PathOf(0, 3) }

UartLines ==
    { CommandOf(PathOf(kind, n)) : kind \in PathKinds, n \in PathLens }
        \cup OtherLines
        \cup { CommandOf(PathOf(0, 2)) \o CommandOf(PathOf(1, 3)) }
        \cup { CommandOf(PathOf(0, MAX_FILENAME_LEN - UART_CMD_PREFIX_LEN)
                             \o UART_CMD_PREFIX \o PathOf(0, 2)) }

\* the return values of Program_Target
ProgramResults == -7 .. 0

NoLine == [chars |-> <<>>, taken |-> 0]

LineLeft == uartIn.taken < Len(uartIn.chars)

\* a round of the main loop starts while characters are arriving (a round
\* with a silent line ends by the timeout and does nothing):
\* UART_ReceiveCommand(cmd_buffer, MAX_FILENAME_LEN, 60000) is entered
UartReceiveCommand ==
    /\ UNCHANGED <<plVars, hexVars, swdVars, progVars, ledVars>>
    /\ uartPc = "idle"
    /\ LineLeft
    /\ uartRx' = (IF MAX_FILENAME_LEN = 0 THEN RxRefused ELSE RxStart)
    /\ uartPc' = "receive"
    /\ UNCHANGED <<uartIn, uartOut>>

\* HAL_UART_Receive hands over the next character of the line
UartReceiveChar ==
    /\ UNCHANGED <<plVars, hexVars, swdVars, progVars, ledVars>>
    /\ uartPc = "receive"
    /\ ~uartRx.done
    /\ LineLeft
    /\ uartRx' = UART_ReceiveChar(uartRx, uartIn.chars[uartIn.taken + 1], MAX_FILENAME_LEN)
    /\ uartIn' = [uartIn EXCEPT !.taken = @ + 1]
    /\ UNCHANGED <<uartPc, uartOut>>

\* the line has gone silent for longer than the timeout
UartReceiveTimeout ==
    /\ UNCHANGED <<plVars, hexVars, swdVars, progVars, ledVars>>
    /\ uartPc = "receive"
    /\ ~uartRx.done
    /\ ~LineLeft
    /\ uartRx' = UART_ReceiveTimeout(uartRx)
    /\ UNCHANGED <<uartIn, uartPc, uartOut>>

\* UART_ReceiveCommand has returned: the rest of the round
UartRound ==
    /\ UNCHANGED <<plVars, hexVars, swdVars, progVars, ledVars>>
    /\ uartPc = "receive"
    /\ uartRx.done
    /\ \E result \in ProgramResults :
          uartOut' = Append(uartOut, MainRound(uartRx, result))
    /\ uartPc' = "idle"
    /\ UNCHANGED <<uartIn, uartRx>>

UartNext ==
    \/ UartReceiveCommand
    \/ UartReceiveChar
    \/ UartReceiveTimeout
    \/ UartRound


(***************************************************************************)
(* led_control.c : the status LEDs                                         *)
(***************************************************************************)
LED_BLINK_SLOW == 100

LED_BLINK_FAST == 200

\* one HAL_GPIO_WritePin on the pin of LED1 or LED2: the level, and a
\* change of level counted
WritePin(l, pin, toggles, level) ==
    [l EXCEPT ![pin] = level,
              ![toggles] = IF l[pin] # level THEN @ + 1 ELSE @]

LED_On(l, led_num) ==
    IF led_num = 1 THEN WritePin(l, "led1", "toggles1", 1)
    ELSE WritePin(l, "led2", "toggles2", 1)

LED_Off(l, led_num) ==
    IF led_num = 1 THEN WritePin(l, "led1", "toggles1", 0)
    ELSE WritePin(l, "led2", "toggles2", 0)

\* LED_Control_Init, both pins low, no change of level counted yet
LedReset ==
    [current_state |-> "IDLE", systick_counter |-> 0,
     led1_blink_state |-> 0, led2_blink_state |-> 0,
     led1 |-> 0, led2 |-> 0, toggles1 |-> 0, toggles2 |-> 0]

NoLed == LedReset

\* the statics set by LED_Progress and LED_Error alike
BlinkRestart(l, state) ==
    [l EXCEPT !.current_state = state, !.systick_counter = 0,
              !.led1_blink_state = 0, !.led2_blink_state = 0]

LED_Progress(l) == LED_Off(BlinkRestart(l, "PROGRESS"), 2)

LED_Success(l) ==
    LED_On(LED_Off([l EXCEPT !.current_state = "SUCCESS"], 1), 2)

LED_Error(l) == LED_Off(BlinkRestart(l, "ERROR"), 1)

LED_Idle(l) ==
    LED_Off(LED_Off([l EXCEPT !.current_state = "IDLE"], 1), 2)

\* !x of a uint8_t
NotU8(x) == IF x = 0 THEN 1 ELSE 0

\* the branch of LED_Update for one blinking LED
BlinkUpdate(l, period, blink_state, led_num) ==
    IF l.systick_counter >= period
    THEN LET b == NotU8(l[blink_state])
             m == [l EXCEPT !.systick_counter = 0, ![blink_state] = b]
         IN  IF b # 0 THEN LED_On(m, led_num) ELSE LED_Off(m, led_num)
    ELSE l

LED_Update(l) ==
    IF l.current_state = "PROGRESS"
    THEN BlinkUpdate(l, LED_BLINK_SLOW, "led1_blink_state", 1)
    ELSE IF l.current_state = "ERROR"
    THEN BlinkUpdate(l, LED_BLINK_FAST, "led2_blink_state", 2)
    ELSE l

\* LED_SysTick_Callback, called every millisecond
LED_SysTick_Callback(l) == [l EXCEPT !.systick_counter = @ + 1]

(***************************************************************************)
(* Status LED harness: the main loop's calls of led_control.c, with the    *)
(* milliseconds that pass during Program_Target and during HAL_Delay       *)
(***************************************************************************)
\* the longest session of the model, in milliseconds
MaxSessionMs == 250

\* HAL_Delay(2000) after a session, HAL_Delay(10) at the end of a round
DisplayMs == 2000

RoundDelayMs == 10

\* how long Program_Target takes, in milliseconds: no time, just below and
\* at one blink interval, and more than two
SessionLengths == {0, LED_BLINK_SLOW - 1, LED_BLINK_SLOW, MaxSessionMs}

\* a new phase of the main loop starts: no millisecond spent in it, and
\* the changes of level are counted from here
MainAt(pc, phase, result) ==
    [pc |-> pc, phase |-> phase, ms |-> 0, result |-> result]

NoMain == MainAt("unused", "none", 0)

Recount(l) == [l EXCEPT !.toggles1 = 0, !.toggles2 = 0]

\* a command has been received and its path extracted: LED_Progress(), and
\* Program_Target is called
LedCommand ==
    /\ UNCHANGED <<plVars, hexVars, swdVars, progVars, uartVars>>
    /\ mainSt.pc = "wait"
    /\ led' = LED_Progress(Recount(led))
    /\ mainSt' = MainAt("session", "session", 0)

\* a millisecond passes while main is inside Program_Target or HAL_Delay:
\* the SysTick interrupt calls LED_SysTick_Callback
LedTick ==
    /\ UNCHANGED <<plVars, hexVars, swdVars, progVars, uartVars>>
    /\ \/ mainSt.pc = "session" /\ mainSt.ms < MaxSessionMs
       \/ mainSt.pc = "display" /\ mainSt.ms < DisplayMs
       \/ mainSt.pc = "round_end" /\ mainSt.ms < RoundDelayMs
    /\ led' = LED_SysTick_Callback(led)
    /\ mainSt' = [mainSt EXCEPT !.ms = @ + 1]

\* Program_Target returns result: LED_Success() or LED_Error(), and
\* HAL_Delay(2000) starts
LedSessionEnd ==
    /\ UNCHANGED <<plVars, hexVars, swdVars, progVars, uartVars>>
    /\ mainSt.pc = "session"
    /\ mainSt.ms \in SessionLengths
    /\ \E result \in ProgramResults :
         /\ led' = IF result = 0 THEN LED_Success(Recount(led))
                   ELSE LED_Error(Recount(led))
         /\ mainSt' = MainAt("display",
                             IF result = 0 THEN "success" ELSE "error", result)

\* HAL_Delay(2000) is over: LED_Idle(), then at the end of the round
\* LED_Update(), and HAL_Delay(10) starts
LedDisplayEnd ==
    /\ UNCHANGED <<plVars, hexVars, swdVars, progVars, uartVars>>
    /\ mainSt.pc = "display"
    /\ mainSt.ms = DisplayMs
    /\ led' = LED_Update(LED_Idle(Recount(led)))
    /\ mainSt' = MainAt("round_end", "idle", mainSt.result)

\* HAL_Delay(10) is over: the next round waits for a command
LedRoundEnd ==
    /\ UNCHANGED <<plVars, hexVars, swdVars, progVars, uartVars>>
    /\ mainSt.pc = "round_end"
    /\ mainSt.ms = RoundDelayMs
    /\ mainSt' = MainAt("wait", "idle", mainSt.result)
    /\ UNCHANGED led

LedNext ==
    \/ LedCommand
    \/ LedTick
    \/ LedSessionEnd
    \/ LedDisplayEnd
    \/ LedRoundEnd

(***************************************************************************)
(* Line-parser harness: actions                                            *)
(***************************************************************************)
\* one call HEX_ParseLine(pl_line, &record), the static being 0 before it
PlParse ==
    /\ UNCHANGED <<hexVars, swdVars, progVars, uartVars, ledVars>>
    /\ ~pl_called
    /\ pl_called' = TRUE
    /\ pl_out' = HEX_ParseLine(pl_line, U32Zero)
    /\ UNCHANGED pl_line

PlNext == PlParse

(***************************************************************************)
(* Specifications                                                          *)
(***************************************************************************)
\* HEX_ParseLine is about to be called on a generated line, the static
\* current_extended_address being 0; the other parts are not in use
InitParse ==
    /\ pl_line \in GenLines(MaxCount, MaxData)
    /\ pl_called = FALSE
    /\ pl_out = NoOutcome
    /\ stream = <<>>
    /\ fil = [fsize |-> 0, fptr |-> 0, current_sector |-> 0, flag |-> 0]
    /\ line_buffer = <<>>
    /\ bytes_read = 0
    /\ idx = 0
    /\ line_len = 0
    /\ sector = ZeroSector
    /\ current_extended_address = U32Zero
    /\ hexPc = "unused"
    /\ hexRet = 0
    /\ hexExit = "none"
    /\ sinkLog = <<>>
    /\ recLog = <<>>
    /\ passNo = 0
    /\ overrun = FALSE
    /\ swdTgt = <<>>
    /\ swdPc = "unused"
    /\ swdOp = NoOp
    /\ swdOut = NoOut
    /\ progIn = NoProgIn
    /\ progPc = "unused"
    /\ progOut = NoProgOut
    /\ uartIn = NoLine
    /\ uartPc = "unused"
    /\ uartRx = NoRx
    /\ uartOut = <<>>
    /\ led = NoLed
    /\ mainSt = NoMain

\* a generated stream is on the card, no file is open, the static
\* current_extended_address has its initial value 0
InitHex ==
    /\ pl_line = <<>>
    /\ pl_called = TRUE
    /\ pl_out = NoOutcome
    /\ stream \in HexStreams(MaxRecords)
    /\ fil = [fsize |-> 0, fptr |-> 0, current_sector |-> 0, flag |-> 0]
    /\ line_buffer = <<>>
    /\ bytes_read = 0
    /\ idx = 0
    /\ line_len = 0
    /\ sector = ZeroSector
    /\ current_extended_address = U32Zero
    /\ hexPc = "closed"
    /\ hexRet = 0
    /\ hexExit = "none"
    /\ sinkLog = <<>>
    /\ recLog = <<>>
    /\ passNo = 0
    /\ overrun = FALSE
    /\ swdTgt = <<>>
    /\ swdPc = "unused"
    /\ swdOp = NoOp
    /\ swdOut = NoOut
    /\ progIn = NoProgIn
    /\ progPc = "unused"
    /\ progOut = NoProgOut
    /\ uartIn = NoLine
    /\ uartPc = "unused"
    /\ uartRx = NoRx
    /\ uartOut = <<>>
    /\ led = NoLed
    /\ mainSt = NoMain

\* as InitHex, with a stream of the unit assembly menu on the card
InitUnit ==
    /\ pl_line = <<>>
    /\ pl_called = TRUE
    /\ pl_out = NoOutcome
    /\ stream \in UnitStreams(MaxUnitRecords)
    /\ fil = [fsize |-> 0, fptr |-> 0, current_sector |-> 0, flag |-> 0]
    /\ line_buffer = <<>>
    /\ bytes_read = 0
    /\ idx = 0
    /\ line_len = 0
    /\ sector = ZeroSector
    /\ current_extended_address = U32Zero
    /\ hexPc = "closed"
    /\ hexRet = 0
    /\ hexExit = "none"
    /\ sinkLog = <<>>
    /\ recLog = <<>>
    /\ passNo = 0
    /\ overrun = FALSE
    /\ swdTgt = <<>>
    /\ swdPc = "unused"
    /\ swdOp = NoOp
    /\ swdOut = NoOut
    /\ progIn = NoProgIn
    /\ progPc = "unused"
    /\ progOut = NoProgOut
    /\ uartIn = NoLine
    /\ uartPc = "unused"
    /\ uartRx = NoRx
    /\ uartOut = <<>>
    /\ led = NoLed
    /\ mainSt = NoMain

\* HEX_ProcessFile not yet called, over a file longer than one sector
InitChunk ==
    /\ pl_line = <<>>
    /\ pl_called = TRUE
    /\ pl_out = NoOutcome
    /\ stream \in ChunkStreams
    /\ fil = [fsize |-> 0, fptr |-> 0, current_sector |-> 0, flag |-> 0]
    /\ line_buffer = <<>>
    /\ bytes_read = 0
    /\ idx = 0
    /\ line_len = 0
    /\ sector = ZeroSector
    /\ current_extended_address = U32Zero
    /\ hexPc = "closed"
    /\ hexRet = 0
    /\ hexExit = "none"
    /\ sinkLog = <<>>
    /\ recLog = <<>>
    /\ passNo = 0
    /\ overrun = FALSE
    /\ swdTgt = <<>>
    /\ swdPc = "unused"
    /\ swdOp = NoOp
    /\ swdOut = NoOut
    /\ progIn = NoProgIn
    /\ progPc = "unused"
    /\ progOut = NoProgOut
    /\ uartIn = NoLine
    /\ uartPc = "unused"
    /\ uartRx = NoRx
    /\ uartOut = <<>>
    /\ led = NoLed
    /\ mainSt = NoMain

\* the SWD pins are configured, the target will answer the coming
\* transactions as swdTgt says
InitSwd ==
    /\ pl_line = <<>>
    /\ pl_called = TRUE
    /\ pl_out = NoOutcome
    /\ stream = <<>>
    /\ fil = [fsize |-> 0, fptr |-> 0, current_sector |-> 0, flag |-> 0]
    /\ line_buffer = <<>>
    /\ bytes_read = 0
    /\ idx = 0
    /\ line_len = 0
    /\ sector = ZeroSector
    /\ current_extended_address = U32Zero
    /\ hexPc = "unused"
    /\ hexRet = 0
    /\ hexExit = "none"
    /\ sinkLog = <<>>
    /\ recLog = <<>>
    /\ passNo = 0
    /\ overrun = FALSE
    /\ swdTgt \in [1 .. MaxAnswers -> TgtAnswers]
    /\ swdPc = "idle"
    /\ swdOp = NoOp
    /\ swdOut = NoOut
    /\ progIn = NoProgIn
    /\ progPc = "unused"
    /\ progOut = NoProgOut
    /\ uartIn = NoLine
    /\ uartPc = "unused"
    /\ uartRx = NoRx
    /\ uartOut = <<>>
    /\ led = NoLed
    /\ mainSt = NoMain

\* a command with a file name has arrived: the file is on the card or not,
\* the target answers the coming transactions as progIn.tgts says
InitProg ==
    /\ pl_line = <<>>
    /\ pl_called = TRUE
    /\ pl_out = NoOutcome
    /\ stream = <<>>
    /\ fil = [fsize |-> 0, fptr |-> 0, current_sector |-> 0, flag |-> 0]
    /\ line_buffer = <<>>
    /\ bytes_read = 0
    /\ idx = 0
    /\ line_len = 0
    /\ sector = ZeroSector
    /\ current_extended_address = U32Zero
    /\ hexPc = "unused"
    /\ hexRet = 0
    /\ hexExit = "none"
    /\ sinkLog = <<>>
    /\ recLog = <<>>
    /\ passNo = 0
    /\ overrun = FALSE
    /\ swdTgt = <<>>
    /\ swdPc = "unused"
    /\ swdOp = NoOp
    /\ swdOut = NoOut
    /\ progIn \in [found : BOOLEAN, junk : HostWords,
                    tgts : [1 .. MaxAnswers -> TgtAnswers]]
    /\ progPc = "idle"
    /\ progOut = NoProgOut
    /\ uartIn = NoLine
    /\ uartPc = "unused"
    /\ uartRx = NoRx
    /\ uartOut = <<>>
    /\ led = NoLed
    /\ mainSt = NoMain

\* a command with a file name has arrived; the card holds a file of
\* SessStreams (or no file of that name) and a boot sector; the target
\* functions will return as progIn says
InitSess ==
    /\ pl_line = <<>>
    /\ pl_called = TRUE
    /\ pl_out = NoOutcome
    /\ stream \in SessStreams
    /\ fil = [fsize |-> 0, fptr |-> 0, current_sector |-> 0, flag |-> 0]
    /\ line_buffer = <<>>
    /\ bytes_read = 0
    /\ idx = 0
    /\ line_len = 0
    /\ sector = ZeroSector
    /\ current_extended_address = U32Zero
    /\ hexPc = "closed"
    /\ hexRet = 0
    /\ hexExit = "none"
    /\ sinkLog = <<>>
    /\ recLog = <<>>
    /\ passNo = 0
    /\ overrun = FALSE
    /\ swdTgt = <<>>
    /\ swdPc = "unused"
    /\ swdOp = NoOp
    /\ swdOut = NoOut
    /\ progIn \in [found : BOOLEAN, idread : IdReads, detect : {0, -1},
                    unlock : {0, -1}, erase : {0, -1}, boot : BootSectors]
    /\ progPc = "idle"
    /\ progOut = NoSess
    /\ uartIn = NoLine
    /\ uartPc = "unused"
    /\ uartRx = NoRx
    /\ uartOut = <<>>
    /\ led = NoLed
    /\ mainSt = NoMain

\* the SWD pins are configured, the target will answer the coming
\* transactions as swdTgt says, the last answer standing for all later ones
InitBus ==
    /\ pl_line = <<>>
    /\ pl_called = TRUE
    /\ pl_out = NoOutcome
    /\ stream = <<>>
    /\ fil = [fsize |-> 0, fptr |-> 0, current_sector |-> 0, flag |-> 0]
    /\ line_buffer = <<>>
    /\ bytes_read = 0
    /\ idx = 0
    /\ line_len = 0
    /\ sector = ZeroSector
    /\ current_extended_address = U32Zero
    /\ hexPc = "unused"
    /\ hexRet = 0
    /\ hexExit = "none"
    /\ sinkLog = <<>>
    /\ recLog = <<>>
    /\ passNo = 0
    /\ overrun = FALSE
    /\ swdTgt \in [1 .. MaxBusAnswers -> BusAnswers]
    /\ swdPc = "idle"
    /\ swdOp = NoBusOp
    /\ swdOut = NoOut
    /\ progIn = NoProgIn
    /\ progPc = "unused"
    /\ progOut = NoProgOut
    /\ uartIn = NoLine
    /\ uartPc = "unused"
    /\ uartRx = NoRx
    /\ uartOut = <<>>
    /\ led = NoLed
    /\ mainSt = NoMain

\* the target is connected and will behave as swdTgt says
InitFlash ==
    /\ pl_line = <<>>
    /\ pl_called = TRUE
    /\ pl_out = NoOutcome
    /\ stream = <<>>
    /\ fil = [fsize |-> 0, fptr |-> 0, current_sector |-> 0, flag |-> 0]
    /\ line_buffer = <<>>
    /\ bytes_read = 0
    /\ idx = 0
    /\ line_len = 0
    /\ sector = ZeroSector
    /\ current_extended_address = U32Zero
    /\ hexPc = "unused"
    /\ hexRet = 0
    /\ hexExit = "none"
    /\ sinkLog = <<>>
    /\ recLog = <<>>
    /\ passNo = 0
    /\ overrun = FALSE
    /\ swdTgt \in FlashTargets
    /\ swdPc = "idle"
    /\ swdOp = NoBusOp
    /\ swdOut = MemStart
    /\ progIn = NoProgIn
    /\ progPc = "unused"
    /\ progOut = NoProgOut
    /\ uartIn = NoLine
    /\ uartPc = "unused"
    /\ uartRx = NoRx
    /\ uartOut = <<>>
    /\ led = NoLed
    /\ mainSt = NoMain

\* the main loop is waiting for a command and a line is arriving
InitUart ==
    /\ pl_line = <<>>
    /\ pl_called = TRUE
    /\ pl_out = NoOutcome
    /\ stream = <<>>
    /\ fil = [fsize |-> 0, fptr |-> 0, current_sector |-> 0, flag |-> 0]
    /\ line_buffer = <<>>
    /\ bytes_read = 0
    /\ idx = 0
    /\ line_len = 0
    /\ sector = ZeroSector
    /\ current_extended_address = U32Zero
    /\ hexPc = "unused"
    /\ hexRet = 0
    /\ hexExit = "none"
    /\ sinkLog = <<>>
    /\ recLog = <<>>
    /\ passNo = 0
    /\ overrun = FALSE
    /\ swdTgt = <<>>
    /\ swdPc = "unused"
    /\ swdOp = NoOp
    /\ swdOut = NoOut
    /\ progIn = NoProgIn
    /\ progPc = "unused"
    /\ progOut = NoProgOut
    /\ uartIn \in {[chars |-> l, taken |-> 0] : l \in UartLines}
    /\ uartPc = "idle"
    /\ uartRx = NoRx
    /\ uartOut = <<>>
    /\ led = NoLed
    /\ mainSt = NoMain

\* main has initialised the LEDs (LED_Control_Init, LED_Idle) and waits for
\* a command
InitLed ==
    /\ pl_line = <<>>
    /\ pl_called = TRUE
    /\ pl_out = NoOutcome
    /\ stream = <<>>
    /\ fil = [fsize |-> 0, fptr |-> 0, current_sector |-> 0, flag |-> 0]
    /\ line_buffer = <<>>
    /\ bytes_read = 0
    /\ idx = 0
    /\ line_len = 0
    /\ sector = ZeroSector
    /\ current_extended_address = U32Zero
    /\ hexPc = "unused"
    /\ hexRet = 0
    /\ hexExit = "none"
    /\ sinkLog = <<>>
    /\ recLog = <<>>
    /\ passNo = 0
    /\ overrun = FALSE
    /\ swdTgt = <<>>
    /\ swdPc = "unused"
    /\ swdOp = NoOp
    /\ swdOut = NoOut
    /\ progIn = NoProgIn
    /\ progPc = "unused"
    /\ progOut = NoProgOut
    /\ uartIn = NoLine
    /\ uartPc = "unused"
    /\ uartRx = NoRx
    /\ uartOut = <<>>
    /\ led = LED_Idle(LedReset)
    /\ mainSt = MainAt("wait", "idle", 0)

\* calls of HEX_ParseLine on generated lines
SpecParse == InitParse /\ [][PlNext]_vars

\* HEX_ProcessFile passes over generated streams
SpecHex == InitHex /\ [][HexNext]_vars

\* HEX_ProcessFile passes over streams of the unit assembly menu
SpecUnit == InitUnit /\ [][HexNext]_vars

\* HEX_ProcessFile passes over files longer than one sector
SpecChunk == InitChunk /\ [][HexNext]_vars

\* SWD operations against a target
SpecSwd == InitSwd /\ [][SwdNext]_vars

\* programming sessions against a target
SpecProg == InitProg /\ [][ProgNext]_vars

\* calls of the memory layer against a target
SpecBus == InitBus /\ [][BusNext]_vars

\* calls of the flash functions against a target
SpecFlash == InitFlash /\ [][FlashNext]_vars

\* programming sessions over the results of the target functions
SpecSess == InitSess /\ [][SessNext]_vars

\* the steps of a session outside the for loop of HEX_ProcessFile
SessOutsideScan ==
    \/ SessBegin
    \/ HexCall
    \/ HexReadData
    \/ HexReadFail
    \/ HexEndOfStream
    \/ SessAfterProgram
    \/ SessAfterVerify

\* WF_vars(HexChunkEnd \/ HexLine) with its ENABLED written out: a turn of
\* the for loop is possible exactly when hexPc = "scan", and every step
\* from such a state is that turn
ScanFair == []<>(hexPc # "scan") \/ []<><<hexPc = "scan">>_vars

\* the same sessions, the processor taking a step whenever one is possible
SpecSessLive ==
    InitSess /\ [][SessNext]_vars /\ WF_vars(SessOutsideScan) /\ ScanFair

\* rounds of the main loop over the lines of the command channel
SpecUart == InitUart /\ [][UartNext]_vars

\* rounds of the main loop with the time that passes in them
SpecLed == InitLed /\ [][LedNext]_vars

Init == InitParse \/ InitHex \/ InitUnit \/ InitChunk \/ InitSwd \/ InitProg \/ InitSess \/ InitBus \/ InitFlash \/ InitUart \/ InitLed

Next == PlNext \/ HexNext \/ SwdNext \/ ProgNext \/ SessNext \/ BusNext \/ FlashNext \/ UartNext \/ LedNext

Spec == Init /\ [][Next]_vars

(***************************************************************************)
(* Properties of the SWD operations (under SpecSwd)                        *)
(***************************************************************************)
\* the ADIv5 request byte for given APnDP, RnW and register address: bit 0
\* start = 1, bit 1 APnDP, bit 2 RnW, bit 3 A[2], bit 4 A[3], bit 5 even
\* parity of bits 1..4, bit 6 stop = 0, bit 7 park = 1
ADIv5Request(apndp, rnw, addr) ==
    1 + 2 * apndp + 4 * rnw + 8 * BitOf(addr, 2) + 16 * BitOf(addr, 3)
      + 32 * ((apndp + rnw + BitOf(addr, 2) + BitOf(addr, 3)) % 2) + 128

OpAPnDP(name) == IF name \in {"ReadAP", "WriteAP"} THEN 1 ELSE 0
OpRnW(name)   == IF name \in {"ReadDP", "ReadAP"} THEN 1 ELSE 0

\* the target acknowledges the first transaction with OK and presents a data
\* word with its matching parity bit
WordDelivered ==
    /\ swdTgt[1].ack = SWD_ACK_OK
    /\ swdTgt[1].par = CalcParity(swdTgt[1].word)

\* C1: Target_Connect returns success exactly when the IDCODE read is
\* acknowledged OK and the IDCODE the target delivers is neither 0x00000000
\* nor 0xFFFFFFFF (so it succeeds for 0x4BA00477).
C1_ConnectIffValidIdcode ==
    (swdPc = "called" /\ swdOp.name = "Connect") =>
        ((swdOut.ret = 0) <=>
            (WordDelivered
             /\ swdTgt[1].word \notin {U32Zero, U32(65535, 65535)}))

\* the target acknowledges with OK and delivers 0x4BA00477 with its parity
\* bit, and Target_Connect has returned -1
C1_Witness ==
    /\ swdPc = "called" /\ swdOp.name = "Connect"
    /\ swdTgt[1] = [ack |-> SWD_ACK_OK, word |-> IDCODE_CORTEX_M3, par |-> 1]
    /\ swdOut.ret = -1

\* C2: the request byte that SWD_ReadDP, SWD_WriteDP, SWD_ReadAP and
\* SWD_WriteAP put on the wire for a register address in {0x0, 0x4, 0x8, 0xC}
\* is the ADIv5 request byte for that port, direction and address.
C2_RequestByteIsADIv5 ==
    (swdPc = "called"
     /\ swdOp.name \in {"ReadDP", "WriteDP", "ReadAP", "WriteAP"}) =>
        swdOut.requests[1] =
            ADIv5Request(OpAPnDP(swdOp.name), OpRnW(swdOp.name), swdOp.addr)

\* SWD_ReadDP(0x0, ..) has sent the request byte 0x81; ADIv5 gives 0xA5
C2_Witness ==
    /\ swdPc = "called" /\ swdOp.name = "ReadDP" /\ swdOp.addr = 0
    /\ swdOut.requests[1] = 129
    /\ ADIv5Request(0, 1, 0) = 165

(***************************************************************************)
(* Properties of HEX_ProcessFile (under SpecHex)                           *)
(***************************************************************************)
\* the pass returned because the stream ran out (bytes_read == 0)
AtStreamEnd ==
    /\ hexPc = "done"
    /\ hexExit \in {"end_flushed", "end_empty", "end_sink_failed"}

\* the unit still held in sector is what the sink was called with last
PendingEmitted ==
    /\ sector.size > 0
    /\ sinkLog # <<>>
    /\ sinkLog[Len(sinkLog)].addr = sector.base_address
    /\ sinkLog[Len(sinkLog)].data = SubSeq(sector.data, 1, sector.size)

\* C3: when the stream ends without an End-Of-File record, HEX_ProcessFile
\* returns an error and the unit pending at stream end is not handed to the
\* sink.
C3_MissingEofIsError ==
    AtStreamEnd => (hexRet # 0 /\ ~PendingEmitted)

\* the stream is one data record and a line ending, without an EOF record:
\* the pass has handed the pending unit to the sink and returned 0
C3_Witness ==
    /\ stream = LineData0100 \o <<10>>
    /\ AtStreamEnd /\ hexRet = 0
    /\ Len(sinkLog) = 1 /\ PendingEmitted

SupportedTypes ==
    {HEX_RECORD_DATA, HEX_RECORD_EOF, HEX_RECORD_EXT_LINEAR_ADDR,
     HEX_RECORD_START_LINEAR_ADDR}

\* C4: a checksum-valid record whose type is none of 00, 01, 04, 05 makes the
\* pass return an error at that record; it is never taken in and passed over.
C4_UnknownTypeRejected ==
    \A k \in DOMAIN recLog :
        recLog[k].rec.record_type \notin SupportedTypes =>
            (k = Len(recLog) /\ hexPc = "done" /\ hexRet # 0)

\* a type 02 record followed by the EOF record: the pass has returned 0
C4_Witness ==
    /\ hexPc = "done" /\ hexRet = 0
    /\ Len(recLog) = 2
    /\ recLog[1].rec.record_type = 2
    /\ recLog[2].rec.record_type = HEX_RECORD_EOF

\* the U-aligned unit (U = SECTOR_SIZE) an absolute address lies in
UnitOf(abs) == <<abs[1], abs[2] \div SECTOR_SIZE>>

\* the data records taken in so far all lie, with every byte, in one
\* U-aligned unit
DataInOneUnit ==
    \A j, k \in DOMAIN recLog :
        (recLog[j].rec.record_type = HEX_RECORD_DATA
         /\ recLog[k].rec.record_type = HEX_RECORD_DATA) =>
            /\ UnitOf(recLog[j].abs) = UnitOf(recLog[k].abs)
            /\ (recLog[k].abs[2] % SECTOR_SIZE) + recLog[k].rec.data_len
                   <= SECTOR_SIZE

\* C6: when a record fails to parse, HEX_ProcessFile returns an error and
\* makes no sink call for the unit pending at that moment; if the data before
\* it all falls in one unit, no sink call has been made at all.
C6_ParseErrorNoSink ==
    (hexPc = "done" /\ hexExit = "parse") =>
        /\ hexRet # 0
        /\ ~PendingEmitted
        /\ (DataInOneUnit => sinkLog = <<>>)

\* data at 0x0100, data at 0x0080 (the same aligned unit), then a record
\* with a perturbed checksum: the pass has returned -1 after one sink call
C6_Witness ==
    /\ hexPc = "done" /\ hexExit = "parse" /\ hexRet = -1
    /\ Len(recLog) = 2 /\ DataInOneUnit
    /\ recLog[1].abs = U32(0, 256) /\ recLog[2].abs = U32(0, 128)
    /\ Len(sinkLog) = 1 /\ sinkLog[1].addr = U32(0, 256)

RECURSIVE ExtAfter(_)
\* the upper half of the addresses in force after the records of log:
\* (H << 24) | (L << 16) for the data [H, L] of the most recent type 04
\* record, 0 if there is none
ExtAfter(log) ==
    IF log = <<>> THEN U32Zero
    ELSE IF /\ log[Len(log)].rec.record_type = HEX_RECORD_EXT_LINEAR_ADDR
            /\ log[Len(log)].rec.data_len = 2
         THEN U32(log[Len(log)].rec.data[1] * 256 + log[Len(log)].rec.data[2], 0)
         ELSE ExtAfter(SubSeq(log, 1, Len(log) - 1))

\* C9: in every pass the extended address is 0 before the first record and is
\* always the value set by the most recent type 04 record of that pass; the
\* absolute address of every data record is that value OR-ed with the
\* record's 16-bit address.
C9_AddressCoherence ==
    /\ current_extended_address = ExtAfter(recLog)
    /\ \A k \in DOMAIN recLog :
          recLog[k].rec.record_type = HEX_RECORD_DATA =>
              recLog[k].abs = U32(ExtAfter(SubSeq(recLog, 1, k - 1))[1],
                                  recLog[k].rec.address)

\* a second pass in which a data record at 0x0100 follows the type 04 record
\* [0x08, 0x00] and got the absolute address 0x08000100
C9_Witness ==
    /\ passNo = 2
    /\ Len(recLog) >= 2
    /\ recLog[1].rec.record_type = HEX_RECORD_EXT_LINEAR_ADDR
    /\ recLog[1].rec.data = <<8, 0>>
    /\ recLog[2].rec.record_type = HEX_RECORD_DATA
    /\ recLog[2].abs = U32(2048, 256)

\* C10: at every sink call the base address is a multiple of U = SECTOR_SIZE
\* (base & (U - 1) == 0).
C10_SinkBaseAligned ==
    \A k \in DOMAIN sinkLog : sinkLog[k].addr[2] % SECTOR_SIZE = 0

\* a data record at 0x0100 and the EOF record: the sink has been called with
\* base 0x00000100
C10_Witness ==
    /\ hexPc = "done" /\ hexExit = "eof_flushed"
    /\ Len(sinkLog) = 1
    /\ sinkLog[1].addr = U32(0, 256) /\ sinkLog[1].data = <<170>>

(***************************************************************************)
(* Properties of HEX_ParseLine (under SpecParse)                           *)
(***************************************************************************)
IsHexChar(c) == c \in (48 .. 57) \cup (65 .. 70) \cup (97 .. 102)
HexVal(c) == IF c <= 57 THEN c - 48 ELSE IF c <= 70 THEN c - 55 ELSE c - 87

RECURSIVE EncodedBytes(_, _)
\* the bytes a line encodes from character p on: the value of each pair of
\* hex digits, in order
EncodedBytes(l, p) ==
    IF p + 1 > Len(l) THEN <<>>
    ELSE IF IsHexChar(l[p]) /\ IsHexChar(l[p + 1])
         THEN <<HexVal(l[p]) * 16 + HexVal(l[p + 1])>> \o EncodedBytes(l, p + 2)
         ELSE EncodedBytes(l, p + 2)

\* the last two characters of the line are a checksum byte
HasChecksumByte(l) ==
    Len(l) >= 3 /\ IsHexChar(l[Len(l) - 1]) /\ IsHexChar(l[Len(l)])

\* the line with its checksum byte changed by d modulo 256
BumpChecksum(l, d) ==
    SubSeq(l, 1, Len(l) - 2)
    \o Byte2((HexVal(l[Len(l) - 1]) * 16 + HexVal(l[Len(l)]) + d) % 256)

\* C5: if HEX_ParseLine accepts a line, the bytes the line encodes (count,
\* address, type, data, checksum) sum to 0 modulo 256, and the same line with
\* its checksum byte changed by 1 is rejected.
C5_ChecksumLaw ==
    (pl_called /\ pl_out.ret = 0) =>
        /\ SumSeq(EncodedBytes(pl_line, 2)) % 256 = 0
        /\ HasChecksumByte(pl_line) =>
              \A d \in {1, 255} :
                  HEX_ParseLine(BumpChecksum(pl_line, d), U32Zero).ret # 0

\* ":000000010G" has been accepted: its bytes 00 00 00 01 sum to 1, the
\* checksum field "0G" is no byte
C5_Witness ==
    /\ pl_called /\ pl_out.ret = 0
    /\ pl_line = [EncodeLine(0, 0, 1, <<>>, 1) EXCEPT ![11] = 71]
    /\ SumSeq(EncodedBytes(pl_line, 2)) % 256 = 1

\* C7: HEX_ParseLine rejects every line that lacks the leading ':', has an
\* odd number of characters after it, or has a character that is no hex
\* digit in any field, the two checksum characters included.
C7_MalformedRejected ==
    (pl_called
     /\ \/ Len(pl_line) = 0
        \/ pl_line[1] # HEX_START_CODE
        \/ (Len(pl_line) - 1) % 2 = 1
        \/ \E p \in 2 .. Len(pl_line) : ~IsHexChar(pl_line[p])) =>
        pl_out.ret # 0

\* ":00000001000", eleven characters after the ':', has been accepted
C7_Witness ==
    /\ pl_called /\ pl_out.ret = 0
    /\ pl_line = Append(EncodeLine(0, 0, 1, <<>>, 1), 48)
    /\ (Len(pl_line) - 1) % 2 = 1

\* C8: HEX_ParseLine rejects every line whose length differs from
\* 11 + 2 * byte_count, byte_count being the value of its first field.
C8_LengthMatchesCount ==
    (pl_called
     /\ Len(pl_line) >= 3
     /\ IsHexChar(pl_line[2]) /\ IsHexChar(pl_line[3])
     /\ Len(pl_line) # 11 + 2 * (HexVal(pl_line[2]) * 16 + HexVal(pl_line[3]))) =>
        pl_out.ret # 0

\* ":01000000FF" (byte_count 1, length 11) has been accepted, the checksum
\* characters taken as the data byte
C8_Witness ==
    /\ pl_called /\ pl_out.ret = 0
    /\ pl_line = EncodeLine(1, 0, 0, <<>>, 0)
    /\ Len(pl_line) = 11
    /\ pl_out.record.data_len = 1 /\ pl_out.record.data = <<255>>


(***************************************************************************)
(* Properties of the assembly of program units (under SpecUnit)            *)
(***************************************************************************)
\* the data records whose bytes are in the sector handed over by the j-th
\* program_callback call of the pass
RecordsOfCall(j) ==
    {k \in DOMAIN recLog :
        /\ recLog[k].rec.record_type = HEX_RECORD_DATA
        /\ recLog[k].calls = j - 1}

\* position p (from 0) of the j-th call's range was written by a data record
\* since the sector was started
WrittenAt(j, p) ==
    \E k \in RecordsOfCall(j) :
        /\ ~U32Less(recLog[k].abs, sinkLog[j].addr)
        /\ SectorOffset(recLog[k].abs, sinkLog[j].addr) <= p
        /\ p < SectorOffset(recLog[k].abs, sinkLog[j].addr)
                 + recLog[k].rec.data_len

LastStraddles ==
    /\ recLog # <<>>
    /\ sector.size > 0
    /\ recLog[Len(recLog)].rec.record_type = HEX_RECORD_DATA
    /\ recLog[Len(recLog)].rec.data_len > 0
    /\ ~U32Less(recLog[Len(recLog)].abs, sector.base_address)
    /\ U32Less(recLog[Len(recLog)].abs,
               U32AddSmall(sector.base_address, SECTOR_SIZE))
    /\ ~U32Less(U32AddSmall(recLog[Len(recLog)].abs,
                            recLog[Len(recLog)].rec.data_len - 1),
                U32AddSmall(sector.base_address, SECTOR_SIZE))

\* C12: a data record that starts inside the pending unit and extends past
\* its end is split (prefix into the pending unit, flush, suffix into a new
\* unit): the pass does not end in an error at such a record.
C12_StraddleIsSplit ==
    (hexPc = "done" /\ LastStraddles /\ \A j \in DOMAIN sinkLog : sinkLog[j].ret = 0)
        => hexRet = 0

\* a pass has ended at a record that straddles the end of the pending sector
C12_Witness ==
    /\ hexPc = "done"
    /\ LastStraddles
    /\ hexExit = "record"
    /\ hexRet = -1
    /\ Len(recLog) >= 2


RECURSIVE SplitLines(_, _, _)
\* the non-empty lines of a stream: the runs of characters between CR and LF
\* characters, the last one with or without a line ending behind it
SplitLines(bytes, k, cur) ==
    IF k > Len(bytes)
    THEN IF cur = <<>> THEN <<>> ELSE <<cur>>
    ELSE IF bytes[k] = 10 \/ bytes[k] = 13
    THEN (IF cur = <<>> THEN <<>> ELSE <<cur>>) \o SplitLines(bytes, k + 1, <<>>)
    ELSE SplitLines(bytes, k + 1, Append(cur, bytes[k]))

RECURSIVE StreamRecords(_, _)
\* the data records of the lines up to the first end of file record, each
\* with the absolute address of its first byte: ext is the upper half in
\* force, changed by a type 04 line with two data bytes
StreamRecords(lines, ext) ==
    IF lines = <<>> THEN <<>>
    ELSE IF Len(EncodedBytes(lines[1], 2)) < 5
    THEN StreamRecords(Tail(lines), ext)
    ELSE IF EncodedBytes(lines[1], 2)[4] = HEX_RECORD_EOF
    THEN <<>>
    ELSE IF EncodedBytes(lines[1], 2)[4] = HEX_RECORD_EXT_LINEAR_ADDR
    THEN StreamRecords(Tail(lines),
                       IF EncodedBytes(lines[1], 2)[1] = 2
                       THEN U32(EncodedBytes(lines[1], 2)[5] * 256
                                + EncodedBytes(lines[1], 2)[6], 0)
                       ELSE ext)
    ELSE IF EncodedBytes(lines[1], 2)[4] = HEX_RECORD_DATA
    THEN <<[abs |-> U32Or(ext, U32(0, EncodedBytes(lines[1], 2)[2] * 256
                                      + EncodedBytes(lines[1], 2)[3])),
            data |-> SubSeq(EncodedBytes(lines[1], 2), 5,
                            Len(EncodedBytes(lines[1], 2)) - 1)]>>
         \o StreamRecords(Tail(lines), ext)
    ELSE StreamRecords(Tail(lines), ext)

\* the data records of a stream
StreamData(bytes) == StreamRecords(SplitLines(bytes, 1, <<>>), U32Zero)

\* the absolute address a is one of the addresses of data record r
CoversAddress(r, a) ==
    /\ ~U32Less(a, r.abs)
    /\ U32Less(a, U32AddSmall(r.abs, Len(r.data)))

\* the j-th call of the sink hands over value v at absolute address a
EmittedAt(j, a, v) ==
    /\ ~U32Less(a, sinkLog[j].addr)
    /\ U32Less(a, U32AddSmall(sinkLog[j].addr, sinkLog[j].size))
    /\ sinkLog[j].data[SectorOffset(a, sinkLog[j].addr) + 1] = v

\* C13: for a stream processed successfully, every absolute address of every
\* data byte of the stream (the later record counts where two records give
\* the same address) is in a range handed to the sink with that byte's value,
\* and every position handed to the sink that no data byte covers holds 0xFF.
C13_UnitCoverage ==
    (hexPc = "done" /\ hexRet = 0) =>
        \A recs \in {StreamData(stream)} :
            /\ \A k \in DOMAIN recs : \A i \in 1 .. Len(recs[k].data) :
                   (\A k2 \in DOMAIN recs :
                        k2 > k => ~CoversAddress(recs[k2],
                                                 U32AddSmall(recs[k].abs, i - 1)))
                   => \E j \in DOMAIN sinkLog :
                          EmittedAt(j, U32AddSmall(recs[k].abs, i - 1),
                                    recs[k].data[i])
            /\ \A j \in DOMAIN sinkLog : \A p \in 0 .. sinkLog[j].size - 1 :
                   (\A k \in DOMAIN recs :
                        ~CoversAddress(recs[k], U32AddSmall(sinkLog[j].addr, p)))
                   => sinkLog[j].data[p + 1] = 255

\* a pass has returned 0 without any call of the sink on a stream that holds
\* a data record
C13_Witness ==
    /\ hexPc = "done"
    /\ hexRet = 0
    /\ sinkLog = <<>>
    /\ StreamData(stream) # <<>>
    /\ Len(StreamData(stream)[1].data) > 0


\* the characters of
\*   :020000040800F2 CR LF :04000000DEADBEEFC4 CR LF :00000001FF CR LF
MinimalImageC4 ==
    <<
      58, 48, 50, 48, 48, 48, 48, 48, 52, 48, 56, 48, 48, 70, 50, 13,
      10, 58, 48, 52, 48, 48, 48, 48, 48, 48, 68, 69, 65, 68, 66, 69,
      69, 70, 67, 52, 13, 10, 58, 48, 48, 48, 48, 48, 48, 48, 49, 70,
      70, 13, 10
    >>

\* a pass over the stream has ended, the card delivered its sectors and the
\* sink returned 0 whenever it was called
PassEndedOn(bytes) ==
    /\ stream = bytes
    /\ hexPc = "done"
    /\ hexExit # "read"
    /\ \A j \in DOMAIN sinkLog : sinkLog[j].ret = 0

\* the pass succeeded with the one sink call (0x08000000, DE AD BE EF, 4),
\* the rest of the unit holding 0xFF
OneCallDeadBeef ==
    /\ hexRet = 0
    /\ Len(sinkLog) = 1
    /\ sinkLog[1].addr = U32(2048, 0)
    /\ sinkLog[1].size = 4
    /\ sinkLog[1].data = <<222, 173, 190, 239>>
    /\ sector.base_address = U32(2048, 0)
    /\ \A p \in 5 .. SECTOR_SIZE : sector.data[p] = 255

RegisterOpCalled ==
    /\ swdPc = "called"
    /\ swdOp.name \in {"ReadDP", "WriteDP", "ReadAP", "WriteAP"}

\* C16: a transaction answered with WAIT is retried with the same request;
\* when the target answers OK after it the operation succeeds (here: one
\* WAIT, then OK, for a retry bound of at least 2).
C16_WaitIsRetried ==
    (RegisterOpCalled /\ swdTgt[1].ack = SWD_ACK_WAIT) =>
        /\ Len(swdOut.requests) >= 2
        /\ swdOut.requests[2] = swdOut.requests[1]
        /\ (swdOp.name \in {"WriteDP", "WriteAP"} /\ swdTgt[2].ack = SWD_ACK_OK)
              => swdOut.ret = 0

\* a write was answered with WAIT by a target that would answer OK next: one
\* request went out and the operation failed
C16_Witness ==
    /\ RegisterOpCalled
    /\ swdOp.name = "WriteDP"
    /\ swdOp.addr = 8
    /\ swdTgt[1].ack = SWD_ACK_WAIT
    /\ swdTgt[2].ack = SWD_ACK_OK
    /\ Len(swdOut.requests) = 1
    /\ swdOut.ret = -1

\* C17: when a transaction is answered with FAULT, a write to DP.ABORT is
\* issued before the operation returns its error.
C17_FaultIsCleared ==
    (RegisterOpCalled /\ swdTgt[1].ack = SWD_ACK_FAULT) =>
        /\ swdOut.ret # 0
        /\ \E i \in 2 .. Len(swdOut.requests) :
               swdOut.requests[i] \in {ADIv5Request(0, 0, 0), WriteDP_Request(0)}

\* an AP write was answered with FAULT: the operation failed after its one
\* request
C17_Witness ==
    /\ RegisterOpCalled
    /\ swdOp.name = "WriteAP"
    /\ swdTgt[1].ack = SWD_ACK_FAULT
    /\ swdOut.requests = <<WriteAP_Request(swdOp.addr)>>
    /\ swdOut.ret = -1


\* the 33 bits of a target's answer (data word and parity bit) hold an even
\* number of ones; a frame that differs from such a frame in one bit, be it
\* a data bit or the parity bit, holds an odd number
FrameConsistent(a) ==
    (ParityN(a.word[1], 16) + ParityN(a.word[2], 16) + a.par) % 2 = 0

\* the host takes the data phase of a transaction with this request as a
\* read: if (request & 0x04)
ClocksWordIn(request) == BitAndN(request, 4, 8) # 0

\* C18: when a read transaction is acknowledged OK and the word and parity
\* bit received differ from a parity-consistent frame in one bit, the
\* operation returns an error and the transaction does not write the
\* caller's data word (for the RDBUFF read of SWD_ReadAP: the word stays as
\* the AP transaction before it left it).
C18_ParityDetected ==
    /\ (/\ swdPc = "called"
        /\ swdOp.name \in {"ReadDP", "ReadAP"}
        /\ ClocksWordIn(swdOut.requests[1])
        /\ swdTgt[1].ack = SWD_ACK_OK
        /\ ~FrameConsistent(swdTgt[1]))
         => (swdOut.ret # 0 /\ swdOut.data = swdOp.data
             /\ Len(swdOut.requests) = 1)
    /\ (/\ swdPc = "called"
        /\ swdOp.name = "ReadAP"
        /\ Len(swdOut.requests) = 2
        /\ ClocksWordIn(swdOut.requests[2])
        /\ swdTgt[2].ack = SWD_ACK_OK
        /\ ~FrameConsistent(swdTgt[2]))
         => (swdOut.ret # 0 /\ swdOut.data = swdTgt[1].word)

\* a read of the DP register at 0x4 was acknowledged OK and answered with
\* the frame of 0x4BA00477 (parity bit 1) with data bit 12 flipped: the
\* operation failed and the caller's word is as it was
C18_Witness ==
    /\ swdPc = "called"
    /\ swdOp.name = "ReadDP"
    /\ swdOp.addr = 4
    /\ swdOp.data = U32(41055, 3)
    /\ ClocksWordIn(swdOut.requests[1])
    /\ swdTgt[1] = [ack |-> SWD_ACK_OK, word |-> IDCODE_CORTEX_M4, par |-> 1]
    /\ FrameConsistent([ack |-> SWD_ACK_OK, word |-> IDCODE_CORTEX_M3, par |-> 1])
    /\ swdOut.ret = -1
    /\ swdOut.data = U32(41055, 3)


\* the AP transaction of SWD_ReadAP came back OK: ACK OK and a frame with
\* consistent parity
APReadOk == swdTgt[1].ack = SWD_ACK_OK /\ FrameConsistent(swdTgt[1])

\* C19: SWD_ReadAP issues the AP read request and, if and only if it is
\* acknowledged OK, a DP.RDBUFF read after it, and returns the RDBUFF value;
\* when the AP read is not acknowledged OK there is no RDBUFF read and an
\* error is returned.
C19_ReadAPThenRdbuff ==
    (swdPc = "called" /\ swdOp.name = "ReadAP") =>
        /\ swdOut.requests[1] = ADIv5Request(1, 1, swdOp.addr)
        /\ APReadOk <=> Len(swdOut.requests) = 2
        /\ APReadOk => swdOut.requests[2] = ADIv5Request(0, 1, DP_RDBUFF)
        /\ swdOut.ret = 0 => (APReadOk /\ swdOut.data = swdTgt[2].word)
        /\ ~APReadOk => (swdOut.ret # 0 /\ Len(swdOut.requests) = 1)

\* SWD_ReadAP has returned 0 after two requests, the second being the byte
\* SWD_ReadDP builds for DP_RDBUFF, which is not the DP.RDBUFF read request
C19_Witness ==
    /\ swdPc = "called"
    /\ swdOp.name = "ReadAP"
    /\ APReadOk
    /\ Len(swdOut.requests) = 2
    /\ swdOut.requests[2] = ReadDP_Request(DP_RDBUFF)
    /\ swdOut.requests[2] # ADIv5Request(0, 1, DP_RDBUFF)
    /\ swdOut.requests[2] = ADIv5Request(0, 1, 4)
    /\ swdOut.ret = 0
    /\ swdOut.data = swdTgt[2].word


(***************************************************************************)
(* Properties of the programming session (under SpecProg)                  *)
(***************************************************************************)
\* the IDCODEs of the three known families
KnownIdcodes == {IDCODE_CORTEX_M0, IDCODE_CORTEX_M3, IDCODE_CORTEX_M4}

\* Program_Target was called with the file on the card and a target that
\* presents no IDCODE of a known family
UnknownFamilySession ==
    /\ progPc \in {"returned", "erase"}
    /\ progIn.found
    /\ \A i \in DOMAIN progIn.tgts : progIn.tgts[i].word \notin KnownIdcodes

CallAt(name) ==
    IF \E i \in 1 .. Len(progOut.calls) : progOut.calls[i] = name
    THEN CHOOSE i \in 1 .. Len(progOut.calls) :
            /\ progOut.calls[i] = name
            /\ \A j \in 1 .. i - 1 : progOut.calls[j] # name
    ELSE 0

Called(name) == CallAt(name) > 0

\* a was called, and before the first call of b
CalledBefore(a, b) == Called(a) /\ CallAt(a) < CallAt(b)

\* the IDCODE read of Target_Connect worked and gave a word other than 0
\* and 0xFFFFFFFF
ConnectSucceeds ==
    /\ progIn.idread.ret = 0
    /\ progIn.idread.data # U32Zero
    /\ progIn.idread.data # U32(65535, 65535)

\* C21: in every run of Program_Target the mass erase is attempted only
\* after connect, detect and unlock have succeeded, the programming pass
\* only after the erase succeeded, the verify pass only after the
\* programming pass succeeded, the target reset only after the verify pass
\* succeeded; and a target whose IDCODE reads 0xFFFFFFFF gets
\* ERR_TARGET_CONNECT and no erase.
C21_StepOrder ==
    /\ Called("Flash_EraseFull") =>
          /\ ConnectSucceeds /\ progIn.detect = 0 /\ progIn.unlock = 0
          /\ CalledBefore("Target_Connect", "Target_Detect")
          /\ CalledBefore("Target_Detect", "Flash_Unlock")
          /\ CalledBefore("Flash_Unlock", "Flash_EraseFull")
    /\ Called("HEX_ProcessFile(Flash_Program)") =>
          /\ progIn.erase = 0
          /\ CalledBefore("Flash_EraseFull", "HEX_ProcessFile(Flash_Program)")
    /\ Called("HEX_ProcessFile(Flash_Verify)") =>
          /\ Len(progOut.exits) >= 1
          /\ progOut.exits[1].ret = 0
          /\ CalledBefore("HEX_ProcessFile(Flash_Program)",
                          "HEX_ProcessFile(Flash_Verify)")
    /\ Called("Target_Reset") =>
          /\ Len(progOut.exits) = 2
          /\ progOut.exits[2].ret = 0
          /\ CalledBefore("HEX_ProcessFile(Flash_Verify)", "Target_Reset")
    /\ (/\ progPc = "returned"
        /\ progIn.found
        /\ progIn.idread = [ret |-> 0, data |-> U32(65535, 65535)]) =>
          /\ progOut.resps = <<RESP_ERR_TARGET_CONNECT>>
          /\ ~Called("Flash_EraseFull")

\* a run that went through all the steps and reset the target
C21_Witness ==
    /\ progPc = "returned"
    /\ progOut.ret = 0
    /\ Called("Flash_EraseFull")
    /\ Called("Target_Reset")


\* C22: in every run that reaches Flash_EraseFull the core has been halted
\* before (Target_HaltCore, the memory write of 0xA05F0003 to DHCSR at
\* 0xE000EDF0).
C22_HaltBeforeErase ==
    Called("Flash_EraseFull") =>
        CalledBefore("Target_HaltCore", "Flash_EraseFull")

\* a run in which the erase has been called and the core was never halted
C22_Witness ==
    /\ Called("Flash_EraseFull")
    /\ ~Called("Target_HaltCore")


\* the run has returned on a failure of unlock, erase, programming pass or
\* verify pass
FailedAfterConnect ==
    /\ progPc = "returned"
    /\ progOut.ret \in {-4, -5, -6, -7}

\* C23: on every failure path of a session (unlock, erase, program or verify
\* failure) both Flash_Lock and Target_Reset have been called when
\* Program_Target returns.
C23_CleanupOnFailure ==
    FailedAfterConnect => (Called("Flash_Lock") /\ Called("Target_Reset"))

\* a run that failed at the unlock and returned with neither call made
C23_Witness ==
    /\ progPc = "returned"
    /\ progOut.ret = -4
    /\ ~Called("Flash_Lock")
    /\ ~Called("Target_Reset")


\* a response was sent with UART_SendResponse during the run
Sent(resp) == \E i \in 1 .. Len(progOut.resps) : progOut.resps[i] = resp

\* a HEX_ProcessFile pass of the run ended on a line HEX_ParseLine rejected
ParseFailed ==
    \E i \in 1 .. Len(progOut.exits) : progOut.exits[i].exit = "parse"

\* C24: a session in which a pass over the HEX file has failed on parsing
\* has reported ERR_HEX_PARSE when Program_Target returns.
C24_ParseFailureReported ==
    (progPc = "returned" /\ ParseFailed) => Sent(RESP_ERR_HEX_PARSE)

\* a session on the file with the bad checksum line: the programming pass
\* ended on the parse error and the response was ERR_PROGRAM_FAIL
C24_Witness ==
    /\ progPc = "returned"
    /\ stream = JoinLines(<<LineData0080, LineDataBad, LineEOF>>,
                          <<13, 10>>, TRUE)
    /\ progOut.exits = <<[ret |-> -1, exit |-> "parse"]>>
    /\ progOut.resps = <<RESP_ERR_PROGRAM_FAIL>>


(***************************************************************************)
(* Memory layer and flash functions                                        *)
(***************************************************************************)
\* the call made on the memory bus harness has this name
BusCalled(name) == swdPc = "called" /\ swdOp.name = name

\* the bus operations of the call include a read through DRW that follows a
\* TAR write of the address
ReadsWordAt(address) ==
    \E i, j \in 1 .. Len(swdOut.log) :
        /\ i < j
        /\ swdOut.log[i] = [op |-> "WriteAP", addr |-> AP_TAR,
                            data |-> address]
        /\ swdOut.log[j].op = "ReadAP"
        /\ swdOut.log[j].addr = AP_DRW

\* the key sequence: KEY1, then KEY2, each written to FLASH_KEYR
KeysWritten ==
    /\ Len(swdOut.log) >= 6
    /\ swdOut.log[2] = [op |-> "WriteAP", addr |-> AP_TAR,
                        data |-> FLASH_KEYR_M3]
    /\ swdOut.log[3] = [op |-> "WriteAP", addr |-> AP_DRW, data |-> FLASH_KEY1]
    /\ swdOut.log[5] = [op |-> "WriteAP", addr |-> AP_TAR,
                        data |-> FLASH_KEYR_M3]
    /\ swdOut.log[6] = [op |-> "WriteAP", addr |-> AP_DRW, data |-> FLASH_KEY2]

\* C25: a Flash_Unlock that returns success has written KEY1 and KEY2 to
\* KEYR and then read CR (and found LOCK clear).
C25_UnlockReadsCR ==
    (BusCalled("Flash_Unlock") /\ swdOut.ret = 0) =>
        (KeysWritten /\ ReadsWordAt(FLASH_CR_M3))

\* a Flash_Unlock that returned success after its six AP writes, with no
\* read at all
C25_Witness ==
    /\ BusCalled("Flash_Unlock")
    /\ swdOut.ret = 0
    /\ KeysWritten
    /\ Len(swdOut.log) = 6
    /\ \A i \in 1 .. 6 : swdOut.log[i].op = "WriteAP"


\* the call is a bulk transfer
BulkTransfer ==
    BusCalled("Target_ReadMemory") \/ BusCalled("Target_WriteMemory")

\* the number of DRW accesses among the first n bus operations of the call
DrwAccesses(n) ==
    Cardinality({j \in 1 .. n : swdOut.log[j].addr = AP_DRW})

\* the word with index k of the transfer starts a 1 KB window
StartsWindow(k) == (U32Lo(swdOp.address) + 4 * k) % 1024 = 0

\* C29: in a bulk transfer TAR is rewritten whenever the address passes a
\* 1 KB boundary: the DRW access for a word address + 4k that starts a
\* window (k > 0) directly follows a TAR write of address + 4k.
C29_TarPerWindow ==
    BulkTransfer =>
        \A i \in 1 .. Len(swdOut.log) :
            \A k \in {DrwAccesses(i - 1)} :
                (/\ swdOut.log[i].addr = AP_DRW
                 /\ k > 0
                 /\ StartsWindow(k)) =>
                    swdOut.log[i - 1] =
                        [op |-> "WriteAP", addr |-> AP_TAR,
                         data |-> U32AddSmall(swdOp.address, 4 * k)]

\* a successful read of 16 bytes from 0x200003F8: four DRW reads, the third
\* for 0x20000400, after the one TAR write of the call
C29_Witness ==
    /\ BusCalled("Target_ReadMemory")
    /\ swdOp.address = U32(8192, 1016)
    /\ swdOp.size = 16
    /\ swdOut.ret = 0
    /\ DrwAccesses(Len(swdOut.log)) = 4
    /\ Cardinality({j \in 1 .. Len(swdOut.log) :
                       swdOut.log[j].addr = AP_TAR}) = 1


\* the status the target shows once BSY is clear has no error bit
NoErrorBits ==
    BitAndN(swdTgt.status, FLASH_SR_PGERR + FLASH_SR_WRPRTERR, 8) = 0

\* one of the polls the loop can make reads BSY clear
ClearsInBudget == swdTgt.busy < WaitBusyTimeout

\* C26: with all status reads working, Flash_WaitBusy returns success if and
\* only if BSY was read clear within the 1000 polls and that status has no
\* error bit (PGERR, WRPRTERR); with BSY set through all the polls it fails.
C26_WaitBusyVerdict ==
    (BusCalled("Flash_WaitBusy") /\ swdTgt.rdFail = 0) =>
        (swdOut.ret = 0 <=> (ClearsInBudget /\ NoErrorBits))

\* BSY was set in all 1000 polls, no error bit, and the call returned 0
C26_Witness ==
    /\ BusCalled("Flash_WaitBusy")
    /\ swdTgt.rdFail = 0
    /\ swdTgt.busy = WaitBusyTimeout
    /\ swdTgt.status = 0
    /\ swdOut.reads = WaitBusyTimeout
    /\ swdOut.ret = 0


\* the half-word at offset i of the data, a missing high byte being 0xFF
HalfWordPadFF(data, i, size) ==
    data[i + 1] + 256 * (IF i + 1 < size THEN data[i + 2] ELSE 255)

\* the number of half-words of the call
HalfWordCount == (swdOp.size + 1) \div 2

\* the call wrote PG, then for each half-word in ascending address order
\* the half-word expected(i) at address + i followed by a wait on the
\* status register, then cleared PG
ProgramsHalfWords(expected(_)) ==
    /\ Len(swdOut.log) = 2 * HalfWordCount + 2
    /\ swdOut.log[1] = [op |-> "write", address |-> FLASH_CR_M3,
                        data |-> WordBytes(U32(0, FLASH_CR_PG)), size |-> 4]
    /\ \A k \in 1 .. HalfWordCount :
          /\ swdOut.log[2 * k] =
                [op |-> "write",
                 address |-> U32AddSmall(swdOp.address, 2 * (k - 1)),
                 data |-> HalfBytes(expected(2 * (k - 1))), size |-> 2]
          /\ swdOut.log[2 * k + 1].op = "wait"
          /\ swdOut.log[2 * k + 1].address = FLASH_SR_M3
    /\ swdOut.log[2 * HalfWordCount + 2] =
          [op |-> "write", address |-> FLASH_CR_M3,
           data |-> WordBytes(U32Zero), size |-> 4]

ExpectedPadFF(i) == HalfWordPadFF(swdOp.data, i, swdOp.size)
WrittenByCode(i) == HalfWordAt(swdOp.data, i, swdOp.size)

\* C27: a Flash_Program that succeeds has written the data as half-words in
\* ascending address order with a wait for busy after each one, the last
\* half-word of an odd size being the last byte with 0xFF above it.
C27_HalfWordsPadFF ==
    (BusCalled("Flash_Program") /\ swdOut.ret = 0) =>
        ProgramsHalfWords(ExpectedPadFF)

\* a successful Flash_Program of 3 bytes whose second half-word went out as
\* the third byte with 0x00 above it
C27_Witness ==
    /\ BusCalled("Flash_Program")
    /\ swdOp.size = 3
    /\ swdOut.ret = 0
    /\ swdOut.log[4] = [op |-> "write",
                        address |-> U32AddSmall(swdOp.address, 2),
                        data |-> <<swdOp.data[3], 0>>, size |-> 2]


\* the number of chunks of at most 256 bytes the range of the call has
ChunkCount == (swdOp.size + ReadBufferSize - 1) \div ReadBufferSize

\* none of the reads the range needs fails
AllReadsWork == swdTgt.rdFail \notin 1 .. ChunkCount

\* the flash holds the expected byte at every offset of the range
AllBytesEqual ==
    \A o \in 0 .. swdOp.size - 1 :
        FlashByte(swdTgt, U32AddSmall(swdOp.address, o)) = swdOp.data[o + 1]

\* the reads of the call go through the range chunk by chunk
ReadsTheRange ==
    \A k \in 1 .. Len(swdOut.log) :
        swdOut.log[k] =
            [op |-> "read",
             address |-> U32AddSmall(swdOp.address, ReadBufferSize * (k - 1)),
             data |-> <<>>,
             size |-> IF swdOp.size - ReadBufferSize * (k - 1) < ReadBufferSize
                      THEN swdOp.size - ReadBufferSize * (k - 1)
                      ELSE ReadBufferSize]

\* C28: Flash_Verify(addr, data, size) returns success if and only if every
\* read of the range succeeds and every byte read back equals the expected
\* byte at the same offset; a single differing byte in any chunk, or a
\* failing read, gives failure.
C28_VerifyVerdict ==
    BusCalled("Flash_Verify") =>
        /\ swdOut.ret = 0 <=> (AllReadsWork /\ AllBytesEqual)
        /\ swdOut.ret \in {0, -1}
        /\ ReadsTheRange
        /\ swdOut.ret = 0 => Len(swdOut.log) = ChunkCount

\* a verify of 260 bytes that failed on the last byte of the second chunk,
\* after two successful reads
C28_Witness ==
    /\ BusCalled("Flash_Verify")
    /\ swdOp.size = 260
    /\ swdTgt.flip = 259
    /\ swdTgt.rdFail = 0
    /\ swdOut.reads = 2
    /\ swdOut.ret = -1

(***************************************************************************)
(* Properties of the command channel (under SpecUart)                      *)
(***************************************************************************)
\* the longest path the command format allows
MaxPathLen == MAX_FILENAME_LEN - 1

\* chars is exactly one command "FILE: <path>" CR LF with a path of n
\* characters, none of them CR or LF
IsCommandOfLen(chars, n) ==
    /\ Len(chars) = UART_CMD_PREFIX_LEN + n + 2
    /\ SubSeq(chars, 1, UART_CMD_PREFIX_LEN) = UART_CMD_PREFIX
    /\ chars[Len(chars) - 1] = CR
    /\ chars[Len(chars)] = LF
    /\ \A k \in UART_CMD_PREFIX_LEN + 1 .. UART_CMD_PREFIX_LEN + n : chars[k] \notin {CR, LF}

PathIn(chars) == SubSeq(chars, UART_CMD_PREFIX_LEN + 1, Len(chars) - 2)

\* the first round of the main loop has received the whole line and has
\* called Program_Target with the path in it
PassesPath(chars) ==
    /\ uartIn.taken = Len(chars)
    /\ uartOut[1].received = 1
    /\ uartOut[1].extracted = 1
    /\ uartOut[1].called
    /\ uartOut[1].filename = PathIn(chars)

\* C30: a command "FILE: <path>" CR LF whose path has any length from 1 up
\* to 127 characters is received completely, and its path is extracted
\* unchanged and passed to Program_Target
C30_PathPassed ==
    (/\ \E n \in 1 .. MaxPathLen : IsCommandOfLen(uartIn.chars, n)
     /\ Len(uartOut) = 1)
        => PassesPath(uartIn.chars)

\* a command with a path of 122 characters has been taken by one round:
\* UART_ReceiveCommand has returned 0 at the 128th character, Program_Target
\* has not been called, and the CR LF of the command is still to arrive
C30_Witness ==
    /\ IsCommandOfLen(uartIn.chars, MAX_FILENAME_LEN - UART_CMD_PREFIX_LEN)
    /\ Len(uartOut) = 1
    /\ uartOut[1].received = 0
    /\ ~uartOut[1].called
    /\ uartOut[1].resps = <<>>
    /\ uartIn.taken = MAX_FILENAME_LEN

RECURSIVE RespsOf(_)
\* the responses sent in the rounds, in order
RespsOf(rounds) ==
    IF rounds = <<>> THEN <<>>
    ELSE RespsOf(SubSeq(rounds, 1, Len(rounds) - 1)) \o rounds[Len(rounds)].resps

\* chars is one line: CR LF at its end and no CR or LF before
IsOneLine(chars) ==
    /\ Len(chars) >= 2
    /\ chars[Len(chars) - 1] = CR
    /\ chars[Len(chars)] = LF
    /\ \A k \in 1 .. Len(chars) - 2 : chars[k] \notin {CR, LF}

\* a line without the prefix "FILE: ", or with more characters than the
\* command buffer holds
IsMalformedLine(chars) ==
    /\ IsOneLine(chars)
    /\ \/ Len(chars) - 2 < UART_CMD_PREFIX_LEN
       \/ SubSeq(chars, 1, UART_CMD_PREFIX_LEN) # UART_CMD_PREFIX
       \/ Len(chars) - 2 > MAX_FILENAME_LEN - 1

\* the main loop has taken the whole line and is waiting again
LineDone == uartPc = "idle" /\ ~LineLeft

\* C31: every malformed command line (missing the prefix "FILE: ", or too
\* long for the command buffer) is answered with NG: once the line has been
\* taken, NG is the response and Program_Target has not been called
C31_MalformedAnsweredNG ==
    (IsMalformedLine(uartIn.chars) /\ LineDone)
        => /\ RespsOf(uartOut) = <<RESP_NG>>
           /\ \A i \in 1 .. Len(uartOut) : ~uartOut[i].called

\* the line of 136 characters "FILE: <122 characters>FILE: AB" has been
\* taken: the first round gave up at the 128th character without a
\* response, the second round took the rest as the command "FILE: AB" and
\* called Program_Target("AB"); NG has not been sent
C31_Witness ==
    /\ IsMalformedLine(uartIn.chars)
    /\ LineDone
    /\ Len(uartOut) = 2
    /\ uartOut[1].received = 0
    /\ uartOut[1].resps = <<>>
    /\ uartOut[2].called
    /\ uartOut[2].filename = PathOf(0, 2)
    /\ RESP_NG \notin {RespsOf(uartOut)[k] : k \in 1 .. Len(RespsOf(uartOut))}

(***************************************************************************)
(* Properties of the file passes of a session (under SpecSess)             *)
(***************************************************************************)
\* SD_ReadSector has just delivered bytes to HEX_ProcessFile
JustRead == hexPc = "scan" /\ idx = 0 /\ bytes_read > 0

\* the bytes of the file that a read ending at the file pointer fptr with
\* bytes_read bytes delivers when the file is read from its first sector
\* on, as it is after SD_OpenFile
SectorFromStart == SubSeq(stream, fil.fptr - bytes_read + 1, fil.fptr)

\* C32: after SD_Rewind the successive SD_ReadSector calls deliver the
\* same sectors as right after SD_OpenFile, so that the verify pass
\* consumes the same byte stream as the program pass: every read of either
\* pass delivers the sector of the file at the file pointer
C32_RewindRoundTrip ==
    (progPc \in {"program", "verify"} /\ JustRead)
        => line_buffer = SectorFromStart

\* the verify pass has read its first sector after SD_Rewind: the file
\* pointer says the first sector of the file, the bytes delivered are those
\* of sector 0 of the card and differ from the file's
C32_Witness ==
    /\ progPc = "verify"
    /\ JustRead
    /\ fil.fptr = bytes_read
    /\ fil.current_sector = 1
    /\ line_buffer = SubSeq(progIn.boot, 1, bytes_read)
    /\ line_buffer # SectorFromStart

(***************************************************************************)
(* Termination of a session (under SpecSessLive)                           *)
(***************************************************************************)
\* the steps a pass of HEX_ProcessFile can still take: every read moves the
\* file pointer towards the file size, every turn of the for loop moves
\* the index towards bytes_read
PassSteps ==
    IF hexPc = "idle" THEN 3 * fil.fsize + 3
    ELSE IF hexPc = "read" THEN 3 * (fil.fsize - fil.fptr) + 1
    ELSE IF hexPc = "scan"
    THEN 3 * (fil.fsize - fil.fptr) + (bytes_read - idx) + 2
    ELSE 0

\* the passes a session can still start
PassesLeft ==
    IF progPc = "idle" THEN 3
    ELSE IF progPc = "program" THEN 2
    ELSE IF progPc = "verify" THEN 1
    ELSE 0

\* a bound on the steps the session can still take
SessionSteps == PassesLeft * (3 * Len(stream) + 4) + PassSteps

\* C33: every programming session terminates: Program_Target, once called,
\* eventually returns (success or first error), because every step of the
\* session and of its file-read loops uses up a bounded count of steps
C33_SessionTerminates ==
    /\ (progPc = "idle") ~> (progPc = "returned")
    /\ [][SessionSteps' < SessionSteps]_vars
    /\ [](SessionSteps >= 0)

\* a session has returned 0 after both passes over the file
C33_Witness ==
    /\ progPc = "returned"
    /\ progOut.ret = 0
    /\ Len(progOut.exits) = 2
    /\ passNo = 2
    /\ SessionSteps = 0

(***************************************************************************)
(* Properties of the status LEDs (under SpecLed)                           *)
(***************************************************************************)
\* C34: the status LED patterns are observable: while a programming
\* session is in progress LED1 has changed its level once per elapsed
\* blink interval, and in the error display period after a failed session
\* LED2 has changed its level once per elapsed fast blink interval
C34_LedPatterns ==
    /\ mainSt.phase = "session"
          => led.toggles1 = mainSt.ms \div LED_BLINK_SLOW
    /\ mainSt.phase = "error"
          => led.toggles2 = mainSt.ms \div LED_BLINK_FAST

\* a session has been in progress for two blink intervals and LED1 has
\* stayed off all the time, the counter standing at 200 with nobody
\* looking at it
C34_Witness ==
    /\ mainSt.phase = "session"
    /\ mainSt.ms = 2 * LED_BLINK_SLOW
    /\ led.current_state = "PROGRESS"
    /\ led.systick_counter = 2 * LED_BLINK_SLOW
    /\ led.toggles1 = 0
    /\ led.led1 = 0

(***************************************************************************)
(* Error codes of a session by phase (under SpecSess)                      *)
(***************************************************************************)
\* the session has returned from a failure of unlock, erase or the
\* programming pass
FailedBeforeVerify == progPc = "returned" /\ progOut.ret \in {-4, -5, -6}

\* the session has returned from a failure of the verify pass
FailedInVerify == progPc = "returned" /\ progOut.ret = -7

\* the pass ended because the sink (Flash_Program or Flash_Verify) failed
SinkFailed(exit) ==
    exit \in {"flush_sink_failed", "eof_sink_failed", "end_sink_failed"}

\* C35: an error of unlock, erase or the programming pass is reported as
\* ERR_PROGRAM_FAIL, an error of the verify pass as ERR_VERIFY_FAIL, and
\* no other code is sent for these failures
C35_ErrorCodeByPhase ==
    /\ FailedBeforeVerify => progOut.resps = <<RESP_ERR_PROGRAM_FAIL>>
    /\ FailedInVerify => progOut.resps = <<RESP_ERR_VERIFY_FAIL>>

\* a session has returned -6 because Flash_Program failed in the
\* programming pass, and ERR_PROGRAM_FAIL is the one code sent
C35_Witness ==
    /\ FailedBeforeVerify
    /\ progOut.ret = -6
    /\ Len(progOut.exits) = 1
    /\ SinkFailed(progOut.exits[1].exit)
    /\ progOut.resps = <<RESP_ERR_PROGRAM_FAIL>>


(***************************************************************************)
(* C36: a pass over a file gives the same result and the same sink calls   *)
(* wherever the 512 byte read boundaries fall: every file of ChunkStreams  *)
(* holds the same records (address lines for 0x0800, two data bytes at     *)
(* 0x0080, end of file), so every pass over one makes the one sink call   *)
(* for the two bytes at 0x08000080 and returns what that call returned,    *)
(* unless a storage read failed.                                           *)
(***************************************************************************)
\* the lines of ChunkStream(blank, pad): first byte and length without line ending
ChunkLines(blank, pad) ==
    {[first |-> blank + 17 * j, len |-> 15] : j \in 0 .. pad}
    \cup {[first |-> blank + 17 * (pad + 1), len |-> 11]}

\* a line starts in one read and its end is met in the next
SplitLine(l) ==
    l.first < SECTOR_SIZE /\ SECTOR_SIZE <= l.first + l.len

HasSplitLine(st) ==
    \E b \in 0 .. MaxBlank, p \in 1 .. MaxPadLines :
        st = ChunkStream(b, p) /\ \E l \in ChunkLines(b, p) : SplitLine(l)

PassAsUnsplit ==
    /\ Len(sinkLog) = 1
    /\ sinkLog[1].addr = <<2048, 128>>
    /\ sinkLog[1].size = 2
    /\ sinkLog[1].data = <<187, 204>>
    /\ hexRet = (IF sinkLog[1].ret = 0 THEN 0 ELSE -1)

C36_ChunkingIndependent ==
    (hexPc = "done" /\ stream \in ChunkStreams /\ hexExit # "read")
        => PassAsUnsplit

\* a pass over the file whose data line starts at byte 510 has returned
C36_Witness ==
    /\ hexPc = "done"
    /\ stream = ChunkStream(0, 30)
    /\ fil.fptr > SECTOR_SIZE
    /\ ~PassAsUnsplit


(***************************************************************************)
(* C37: every SWD_TransferPacket clocks 8 request bits, 1 turnaround and   *)
(* 3 ACK bits; if and only if the ACK sampled is OK it clocks a payload    *)
(* (write: 1 turnaround, then the 32 data bits LSB first and 1 parity bit  *)
(* driven by the host; read: 32 data bits and 1 parity bit sampled, then   *)
(* 1 turnaround); it ends with one idle cycle with SWDIO driven low.  The  *)
(* wire events of a register operation are the frames of its requests.     *)
(***************************************************************************)
\* the events w[k], w[k + 1], ... drive the given bits
DrivesBits(w, k, bits) ==
    \A j \in 1 .. Len(bits) : w[k + j - 1] = EvWrite(bits[j])

\* the n events from w[k] on sample the line
SamplesBits(w, k, n) ==
    \A j \in 0 .. n - 1 : w[k + j][1] = "r"

\* the ACK assembled from the three samples at w[k], first sample lowest bit
AckAt(w, k) == w[k][2] + 2 * w[k + 1][2] + 4 * w[k + 2][2]

\* the request bit that tells a read (RnW)
IsReadRequest(request) == BitOf(request, 2) = 1

\* number of events of the frame that starts at w[k]: direction, 8 request
\* bits, direction, turnaround, 3 ACK bits; the payload; direction, idle
FrameEvents(w, k, request) ==
    14 + (IF AckAt(w, k + 11) # SWD_ACK_OK THEN 0
          ELSE IF IsReadRequest(request) THEN 34 ELSE 35) + 2

FrameAt(w, k, request, data) ==
    /\ Len(w) >= k + 15
    /\ Len(w) >= k + FrameEvents(w, k, request) - 1
    /\ w[k] = EvDirOut
    /\ DrivesBits(w, k + 1, [j \in 1 .. 8 |-> BitOf(request, j - 1)])
    /\ w[k + 9] = EvDirIn
    /\ SamplesBits(w, k + 10, 4)
    /\ IF AckAt(w, k + 11) # SWD_ACK_OK
       THEN w[k + 14] = EvDirOut /\ w[k + 15] = EvWrite(0)
       ELSE IF IsReadRequest(request)
       THEN /\ SamplesBits(w, k + 14, 34)
            /\ w[k + 48] = EvDirOut /\ w[k + 49] = EvWrite(0)
       ELSE /\ SamplesBits(w, k + 14, 1)
            /\ w[k + 15] = EvDirOut
            /\ DrivesBits(w, k + 16, WordBits(data))
            /\ w[k + 48][1] = "w"
            /\ w[k + 49] = EvDirOut /\ w[k + 50] = EvWrite(0)

RECURSIVE FramesFrom(_, _, _, _)
\* from w[k] on the events are the frames of the requests, and nothing else
FramesFrom(w, k, requests, data) ==
    IF requests = <<>> THEN k = Len(w) + 1
    ELSE /\ FrameAt(w, k, requests[1], data)
         /\ FramesFrom(w, k + FrameEvents(w, k, requests[1]), Tail(requests),
                       data)

C37_TransactionFraming ==
    RegisterOpCalled =>
        FramesFrom(swdOut.wire, 1, swdOut.requests, swdOp.data)

\* an AP write of 0xA05F0003 was acknowledged OK: its 51 events are on the
\* wire, the first data bit driven is 1
C37_Witness ==
    /\ RegisterOpCalled
    /\ swdOp.name = "WriteAP"
    /\ swdOp.data = U32(41055, 3)
    /\ swdTgt[1].ack = SWD_ACK_OK
    /\ Len(swdOut.wire) = 51
    /\ swdOut.wire[17] = EvWrite(1)
    /\ swdOut.wire[50] = EvDirOut


(***************************************************************************)
(* C38: every round of the main loop that dispatches a command (it calls   *)
(* Program_Target, or it rejects the command as malformed) transmits       *)
(* exactly one response of the fixed set before the next command is        *)
(* awaited: OK if and only if Program_Target was called and returned 0,    *)
(* NG if and only if the command was rejected, and otherwise one error     *)
(* code.                                                                   *)
(***************************************************************************)
ErrorCodes == {RESP_ERR_FILE_NOT_FOUND, RESP_ERR_TARGET_CONNECT,
               RESP_ERR_HEX_PARSE, RESP_ERR_PROGRAM_FAIL,
               RESP_ERR_VERIFY_FAIL}

\* the round has dispatched a command
Dispatched(round) == round.called \/ (round.received = 1 /\ round.extracted = 0)

OneResponse(round) ==
    /\ Len(round.resps) = 1
    /\ round.resps[1] \in {RESP_OK, RESP_NG} \cup ErrorCodes
    /\ round.resps[1] = RESP_OK <=> (round.called /\ round.result = 0)
    /\ round.resps[1] = RESP_NG <=> ~round.called
    /\ (round.called /\ round.result # 0) => round.resps[1] \in ErrorCodes

C38_OneResponsePerCommand ==
    \A i \in 1 .. Len(uartOut) :
        Dispatched(uartOut[i]) => OneResponse(uartOut[i])

\* two commands in a row have been taken: the session of the first failed
\* in its verify pass and sent the verify code, the second returned 0 and
\* was answered with OK
C38_Witness ==
    /\ Len(uartOut) = 2
    /\ uartOut[1].called /\ uartOut[1].result = -7
    /\ uartOut[1].resps = <<RESP_ERR_VERIFY_FAIL>>
    /\ uartOut[2].called /\ uartOut[2].result = 0
    /\ uartOut[2].resps = <<RESP_OK>>
    /\ uartPc = "idle"


(***************************************************************************)
(* C39: in SWD_LineReset and SWD_TransferPacket the host drives a bit      *)
(* (SWD_WriteBit) only while SWDIO is configured as output and samples a   *)
(* bit (SWD_ReadBit) only while SWDIO is configured as input, and SWDIO is *)
(* configured as output when either function returns.                      *)
(***************************************************************************)
\* the direction of SWDIO after the first k events of w: the last one set,
\* "unset" while the function has set none
DirAfter(w, k) ==
    LET sets == {j \in 1 .. k : w[j][1] = "dir"}
    IN  IF sets = {} THEN "unset"
        ELSE w[CHOOSE j \in sets : \A i \in sets : i <= j][2]

\* every bit of w is driven under output and sampled under input, the
\* direction being counted from the start of w
DirectionKept(w) ==
    \A k \in 1 .. Len(w) :
        /\ w[k][1] = "w" => DirAfter(w, k - 1) = "out"
        /\ w[k][1] = "r" => DirAfter(w, k - 1) = "in"

RECURSIVE TransfersKeepDirection(_, _, _)
\* the events from w[k] on are those of one SWD_TransferPacket call per
\* request, each keeping the discipline from its own first event on and
\* returning with SWDIO as output
TransfersKeepDirection(w, k, requests) ==
    IF requests = <<>> THEN k = Len(w) + 1
    ELSE LET n == FrameEvents(w, k, requests[1])
             f == SubSeq(w, k, k + n - 1)
         IN  /\ Len(w) >= k + n - 1
             /\ DirectionKept(f)
             /\ DirAfter(f, n) = "out"
             /\ TransfersKeepDirection(w, k + n, Tail(requests))

\* the events of the SWD_LineReset call that Target_Connect starts with
ResetEvents == SubSeq(swdOut.wire, 1, Len(SWD_LineReset.wire))

C39_DirectionDiscipline ==
    /\ RegisterOpCalled =>
           TransfersKeepDirection(swdOut.wire, 1, swdOut.requests)
    /\ (swdPc = "called" /\ swdOp.name = "Connect") =>
           /\ ResetEvents = SWD_LineReset.wire
           /\ DirectionKept(ResetEvents)
           /\ DirAfter(ResetEvents, Len(ResetEvents)) = "out"
           /\ TransfersKeepDirection(swdOut.wire, Len(ResetEvents) + 1,
                                     swdOut.requests)

\* Target_Connect has run its line reset and one transfer acknowledged OK:
\* 129 events of the reset, then a frame with samples and driven bits
C39_Witness ==
    /\ swdPc = "called"
    /\ swdOp.name = "Connect"
    /\ swdTgt[1].ack = SWD_ACK_OK
    /\ Len(ResetEvents) = 129
    /\ Len(swdOut.requests) = 1
    /\ Len(swdOut.wire) > 129 + 16
    /\ \E k \in 130 .. Len(swdOut.wire) : swdOut.wire[k][1] = "r"


(***************************************************************************)
(* C40: during HEX_ProcessFile every byte written into the line buffer, by *)
(* a storage read or by accumulating a line character or its terminator,   *)
(* lands at an index below the capacity of HEX_LINE_MAX_LEN = 256 bytes:   *)
(* no write at an index of 256 or above has happened, and the index of the *)
(* next accumulated character or terminator is below 256.                  *)
(***************************************************************************)
C40_LineBufferBounded ==
    /\ ~overrun
    /\ line_len < HEX_LINE_MAX_LEN

\* the first read of a pass has delivered a file of less than 256 bytes, and
\* SD_ReadRawSector has written the 512 bytes of its sector to line_buffer
C40_Witness ==
    /\ hexPc = "scan"
    /\ idx = 0
    /\ bytes_read > 0
    /\ bytes_read < HEX_LINE_MAX_LEN
    /\ fil.fptr = bytes_read
    /\ overrun

=============================================================================
